---- MODULE Spec2Model ----
(***************************************************************************)
(* Model of the Solace Terraform generator: the resource-name sanitizer,   *)
(* the topic escapers (the current ">"-only one and the two earlier        *)
(* full-escape ones), the instance suffix and the resource assembler       *)
(* generateTerraformConfig with its earlier single-instance version, the   *)
(* validation schema, the form component in its three versions and the     *)
(* identity-provider service fetchNewClientId.                             *)
(*                                                                         *)
(* A JavaScript string is modelled as the sequence of its Unicode code     *)
(* points (naturals); where the code works on UTF-16 code units            *)
(* (charCodeAt, a regular expression without the u flag) the sequence is   *)
(* first turned into code units with ToUnits.  An optional value           *)
(* (string | undefined) is a sequence of length at most one: None is       *)
(* undefined, Some(v) is the value v.                                      *)
(***************************************************************************)
EXTENDS Integers, Sequences, FiniteSets, TLC

VARIABLES
    pc,               \* position of the caller of generateTerraformConfig
    input,            \* the ProfileConfiguratorValues object handed to the generator
    fetchedOwnerIds,  \* the optional fetchedOwnerIdsForInstances argument
    locals,           \* the local variables of the running call of the generator
    result,           \* what the last call of generateTerraformConfig returned
    previous,         \* what the call before the last one returned
    resultV1,         \* what the earlier single-instance generator returned
    arg,              \* argument of a helper function called on its own
    ret,              \* value the helper returned
    form,             \* the form component: its field values and its React state
    pending           \* the owner-ID fetches of the form that have not finished

vars == <<pc, input, fetchedOwnerIds, locals, result, previous, resultV1, arg, ret,
          form, pending>>

(***************************************************************************)
(* Bounds of the model.                                                    *)
(***************************************************************************)
MaxNameLen == 3
MaxTopicLen == 3
MaxTopics == 2
MaxInstances == 3
MaxOwnerIds == 2
MaxInstanceNumber == 1000

(***************************************************************************)
(* Strings.                                                                *)
(***************************************************************************)
None == <<>>
Some(v) == <<v>>
IsSome(o) == Len(o) = 1
Get(o) == o[1]

\* The printable ASCII characters in code order; Ascii[k] has code 31 + k (the
\* grave accent, code 96, is spelled out: no input uses it).
Ascii == <<
    " ", "!", "\"", "#", "$", "%", "&", "'", "(", ")", "*", "+", ",", "-", ".", "/",
    "0", "1", "2", "3", "4", "5", "6", "7", "8", "9", ":", ";", "<", "=", ">", "?",
    "@", "A", "B", "C", "D", "E", "F", "G", "H", "I", "J", "K", "L", "M", "N", "O",
    "P", "Q", "R", "S", "T", "U", "V", "W", "X", "Y", "Z", "[", "\\", "]", "^", "_",
    "grave", "a", "b", "c", "d", "e", "f", "g", "h", "i", "j", "k", "l", "m", "n", "o",
    "p", "q", "r", "s", "t", "u", "v", "w", "x", "y", "z", "{", "|", "}", "~"
>>

Code(c) == 31 + CHOOSE k \in 1..Len(Ascii) : Ascii[k] = c

\* The string spelled by a tuple of one-character strings.
Str(t) == [k \in 1..Len(t) |-> Code(t[k])]

RECURSIVE Flatten(_)
Flatten(ss) == IF ss = <<>> THEN <<>> ELSE Head(ss) \o Flatten(Tail(ss))

\* Code points outside the ASCII range that the inputs use: e with acute,
\* the Kelvin sign, capital I with dot above, the combining dot above, and
\* the grinning-face emoji U+1F600 (above U+FFFF).
NonAscii == [eAcute |-> 233, kelvin |-> 8490, capitalIDot |-> 304,
             combiningDot |-> 775, grinningFace |-> 128512]

\* UTF-16: a code point above U+FFFF is a surrogate pair.
HighSurrogate(cp) == 55296 + ((cp - 65536) \div 1024)
LowSurrogate(cp) == 56320 + ((cp - 65536) % 1024)
UnitsOf(cp) == IF cp > 65535 THEN <<HighSurrogate(cp), LowSurrogate(cp)>> ELSE <<cp>>
ToUnits(s) == Flatten([k \in 1..Len(s) |-> UnitsOf(s[k])])

IsHigh(u) == u >= 55296 /\ u <= 56319
IsLow(u) == u >= 56320 /\ u <= 57343

\* The code points of a sequence of code units (what iterating a string yields):
\* a high surrogate followed by a low one is one code point, any other unit is
\* a code point of its own.
RECURSIVE FromUnits(_)
FromUnits(u) ==
    IF u = <<>> THEN <<>>
    ELSE IF Len(u) >= 2 /\ IsHigh(u[1]) /\ IsLow(u[2])
         THEN <<65536 + (u[1] - 55296) * 1024 + (u[2] - 56320)>>
              \o FromUnits(SubSeq(u, 3, Len(u)))
         ELSE <<u[1]>> \o FromUnits(Tail(u))

IsLowerAZ(u) == u >= 97 /\ u <= 122
IsUpperAZ(u) == u >= 65 /\ u <= 90
IsDigit(u) == u >= 48 /\ u <= 57
Underscore == Code("_")

\* String.prototype.toLowerCase on one code point, for the code points the
\* inputs use: A-Z and the Latin-1 capitals move by 32, the Kelvin sign becomes
\* "k", capital I with dot becomes "i" and a combining dot, the rest stays.
LowerOf(cp) ==
    IF IsUpperAZ(cp) THEN <<cp + 32>>
    ELSE IF cp >= 192 /\ cp <= 222 /\ cp # 215 THEN <<cp + 32>>
    ELSE IF cp = NonAscii.kelvin THEN <<Code("k")>>
    ELSE IF cp = NonAscii.capitalIDot THEN <<Code("i"), NonAscii.combiningDot>>
    ELSE <<cp>>
toLowerCase(s) == Flatten([k \in 1..Len(s) |-> LowerOf(s[k])])

\* All strings over an alphabet up to a length.
RECURSIVE StringsUpTo(_, _)
StringsUpTo(alphabet, n) ==
    IF n = 0 THEN {<<>>}
    ELSE LET shorter == StringsUpTo(alphabet, n - 1)
         IN  shorter \cup {Append(s, c) : s \in {t \in shorter : Len(t) = n - 1}, c \in alphabet}

\* Two inputs of the documentation: the name "My ACL!" and the topic "a/*/>".
MyAcl == Str(<<"M", "y", " ", "A", "C", "L", "!">>)
TopicAStarGt == Str(<<"a", "/", "*", "/", ">">>)

(***************************************************************************)
(* sanitizeForTerraformResourceName.                                       *)
(***************************************************************************)
\* /[^a-z0-9_]/ on one code unit.
IsNameUnit(u) == IsLowerAZ(u) \/ IsDigit(u) \/ u = Underscore

\* .replace(/[^a-z0-9_]/g, '_'): the expression has no u flag, so it replaces
\* code unit by code unit.
ReplaceNonName(s) ==
    LET u == ToUnits(s)
    IN  [k \in 1..Len(u) |-> IF IsNameUnit(u[k]) THEN u[k] ELSE Underscore]

RECURSIVE StripLeading(_)
StripLeading(s) ==
    IF s # <<>> /\ Head(s) = Underscore THEN StripLeading(Tail(s)) ELSE s

RECURSIVE StripTrailing(_)
StripTrailing(s) ==
    IF s # <<>> /\ s[Len(s)] = Underscore
    THEN StripTrailing(SubSeq(s, 1, Len(s) - 1))
    ELSE s

\* A sanitizer that forgets the trailing run.
TrimLeadingOnly(s) == StripLeading(s)

\* .replace(/^_+|_+$/g, ''): the leading run and the trailing run of "_".
TrimUnderscores(s) == StripTrailing(StripLeading(s))

sanitizeForTerraformResourceName(name) ==
    IF name = <<>> THEN <<>>
    ELSE TrimUnderscores(ReplaceNonName(toLowerCase(name)))

(***************************************************************************)
(* convertTopicToUnicodeEscaped, in its three versions.                    *)
(***************************************************************************)
\* '\\u003e'
EscapedGt == Str(<<"\\", "u", "0", "0", "3", "e">>)

\* An escaper that also rewrites the level separator.
EscapeGtAndSlash(cp) ==
    IF cp = Code(">") \/ cp = Code("/") THEN EscapedGt ELSE <<cp>>

\* The current version: only ">" is escaped.
EscapeGtChar(cp) == IF cp = Code(">") THEN EscapedGt ELSE <<cp>>

\* for (const char of topicValue) walks the code points.
convertTopicToUnicodeEscaped(topicValue) ==
    Flatten([k \in 1..Len(topicValue) |-> EscapeGtChar(topicValue[k])])

HexDigits == Str(<<"0", "1", "2", "3", "4", "5", "6", "7", "8", "9",
                   "a", "b", "c", "d", "e", "f">>)

\* Number.prototype.toString(16)
RECURSIVE toString16(_)
toString16(n) ==
    IF n < 16 THEN <<HexDigits[n + 1]>>
    ELSE Append(toString16(n \div 16), HexDigits[(n % 16) + 1])

\* String.prototype.padStart(width, '0')
RECURSIVE padStart0(_, _)
padStart0(s, width) ==
    IF Len(s) >= width THEN s ELSE padStart0(<<Code("0")>> \o s, width)

\* char.charCodeAt(0) of the string holding one code point: its first code unit.
charCodeAt0(cp) == UnitsOf(cp)[1]

\* An escape that is not padded.
UnicodeEscapeUnpadded(cp) == Str(<<"\\", "u">>) \o toString16(charCodeAt0(cp))

\* `\\u${char.charCodeAt(0).toString(16).padStart(4, '0')}`
UnicodeEscape(cp) ==
    Str(<<"\\", "u">>) \o padStart0(toString16(charCodeAt0(cp)), 4)

\* /[a-zA-Z0-9]/.test(char) and /[a-zA-Z0-9/*]/.test(char): the expression
\* has no u flag and matches when some code unit of char is in the class.
IsAlnumUnit(u) == IsLowerAZ(u) \/ IsUpperAZ(u) \/ IsDigit(u)
TestAlnum(cp) == \E k \in 1..Len(UnitsOf(cp)) : IsAlnumUnit(UnitsOf(cp)[k])
TestAlnumSlashStar(cp) ==
    \E k \in 1..Len(UnitsOf(cp)) :
        LET u == UnitsOf(cp)[k]
        IN  IsAlnumUnit(u) \/ u = Code("/") \/ u = Code("*")

\* The first version: everything but ASCII letters and digits is escaped.
convertTopicToUnicodeEscapedAlnum(topicValue) ==
    Flatten([k \in 1..Len(topicValue) |->
        IF TestAlnum(topicValue[k]) THEN <<topicValue[k]>>
        ELSE UnicodeEscape(topicValue[k])])

\* The second version: "/" and "*" pass as well.
convertTopicToUnicodeEscapedSlashStar(topicValue) ==
    Flatten([k \in 1..Len(topicValue) |->
        IF TestAlnumSlashStar(topicValue[k]) THEN <<topicValue[k]>>
        ELSE UnicodeEscape(topicValue[k])])

EscaperVariants == {"gt", "alnum", "slashStar"}
FullEscapeVariants == {"alnum", "slashStar"}

Escape(variant, topicValue) ==
    CASE variant = "gt" -> convertTopicToUnicodeEscaped(topicValue)
      [] variant = "alnum" -> convertTopicToUnicodeEscapedAlnum(topicValue)
      [] variant = "slashStar" -> convertTopicToUnicodeEscapedSlashStar(topicValue)

(***************************************************************************)
(* generateTerraformConfig (the multi-instance generator).                 *)
(*                                                                         *)
(* A resource block is a record: its resource type, its label (the parts   *)
(* of the interpolated resource name) and its attributes.  An attribute    *)
(* written between double quotes is Quoted(text), a reference written      *)
(* without quotes is Reference(type, label, attribute), a fixed right-hand *)
(* side is the text itself.  The document is the sequence of the pieces    *)
(* appended to it: blocks and the separator texts between them.            *)
(***************************************************************************)
Truthy(o) == IsSome(o) /\ Get(o) # <<>>

Quoted(text) == [quoted |-> text]
\* The literal name in quotes where the reference should stand.
LiteralName(type, label, attribute) == Quoted(label)

\* type.label.attribute, written without quotes.
Reference(type, label, attribute) == [type |-> type, label |-> label, attribute |-> attribute]
Text(t) == [text |-> t]

BlockSeparator == Text("\n\n")
InstanceMarker == Text("\n\n\n# --- Next Profile Instance ---\n\n")

msgVpnNameValue == "solacebroker_msg_vpn.NEMS_01.msg_vpn_name"

\* Array.prototype.join
RECURSIVE Join(_, _)
Join(blocks, separator) ==
    IF Len(blocks) <= 1 THEN blocks
    ELSE <<Head(blocks), separator>> \o Join(Tail(blocks), separator)

Digits == Str(<<"0", "1", "2", "3", "4", "5", "6", "7", "8", "9">>)

\* String(instanceNumber)
RECURSIVE toString10(_)
toString10(n) ==
    IF n < 10 THEN <<Digits[n + 1]>>
    ELSE Append(toString10(n \div 10), Digits[(n % 10) + 1])

\* A suffix that keeps the last three digits only.
TruncatedSuffix(instanceNumber, totalInstances) ==
    IF totalInstances <= 1 THEN <<>>
    ELSE <<Underscore>> \o padStart0(toString10(instanceNumber % 1000), 3)

\* A suffix that is appended for a single instance too.
SuffixForOneToo(instanceNumber, totalInstances) ==
    <<Underscore>> \o padStart0(toString10(instanceNumber), 3)

generatePaddedSuffix(instanceNumber, totalInstances) ==
    IF totalInstances <= 1 THEN <<>>
    ELSE <<Underscore>> \o padStart0(toString10(instanceNumber), 3)

\* input.numberOfInstances ?? 1
NumInstances(in) == IF IsSome(in.numberOfInstances) THEN Get(in.numberOfInstances) ELSE 1

ErrorFetchingIdPrefix ==
    Str(<<"E", "r", "r", "o", "r", "F", "e", "t", "c", "h", "i", "n", "g", "I", "D", "_">>)

\* String.prototype.startsWith
startsWith(s, prefix) ==
    Len(s) >= Len(prefix) /\ SubSeq(s, 1, Len(prefix)) = prefix

\* The names of instance i: the suffixed names and their sanitized forms.
InstanceNames(in, i) ==
    LET instanceSuffix == generatePaddedSuffix(i, NumInstances(in))
        instanceAclProfileName == in.aclProfileName \o instanceSuffix
        instanceAuthProfileName == in.authProfileName \o instanceSuffix
        instanceQueueName ==
            IF Truthy(in.queueName) THEN Some(Get(in.queueName) \o instanceSuffix) ELSE None
    IN  [instanceSuffix |-> instanceSuffix,
         instanceAclProfileName |-> instanceAclProfileName,
         instanceAuthProfileName |-> instanceAuthProfileName,
         instanceQueueName |-> instanceQueueName,
         sanitizedAclProfileName |-> sanitizeForTerraformResourceName(instanceAclProfileName),
         sanitizedAuthProfileName |-> sanitizeForTerraformResourceName(instanceAuthProfileName),
         sanitizedQueueName |->
             IF Truthy(instanceQueueName)
             THEN Some(sanitizeForTerraformResourceName(Get(instanceQueueName)))
             ELSE None]

\* The entry of the list taken whatever the instance count is.
UsesFetchedOwnerIdOfAnyCount(in, ids, i) ==
    /\ in.applicationType = "subscriber"
    /\ IsSome(ids)
    /\ i <= Len(Get(ids))
    /\ Get(ids)[i] # <<>>

\* Whether the owner ID of instance i comes from fetchedOwnerIdsForInstances.
UsesFetchedOwnerId(in, ids, i) ==
    /\ in.applicationType = "subscriber"
    /\ NumInstances(in) > 1
    /\ IsSome(ids)
    /\ i <= Len(Get(ids))
    /\ Get(ids)[i] # <<>>

\* An owner that is always the form's single ownerId.
FormOwnerIdOnly(in, ids, i) == in.ownerId

\* currentOwnerId of instance i.
CurrentOwnerId(in, ids, i) ==
    IF UsesFetchedOwnerId(in, ids, i) THEN Some(Get(ids)[i]) ELSE in.ownerId

\* A mapping line that names the entry of the list whatever it is.
MappingLinesVerbatim(in, ids, i) ==
    LET n == InstanceNames(in, i)
    IN  IF ~UsesFetchedOwnerId(in, ids, i) THEN <<>>
        ELSE <<[instance |-> i,
                acl |-> n.instanceAclProfileName,
                queue |-> n.instanceQueueName,
                owner |-> Quoted(Get(ids)[i])]>>

\* The text appended to ownerIdMappingResult for instance i (nothing, or one line).
MappingLines(in, ids, i) ==
    LET n == InstanceNames(in, i)
        line(owner) == [instance |-> i,
                        acl |-> n.instanceAclProfileName,
                        queue |-> n.instanceQueueName,
                        owner |-> owner]
    IN  IF ~UsesFetchedOwnerId(in, ids, i) THEN <<>>
        ELSE IF startsWith(Get(ids)[i], ErrorFetchingIdPrefix)
             THEN <<line(Text("Error - ID not fetched"))>>
             ELSE <<line(Quoted(Get(ids)[i]))>>

AclProfileResource(sanitizedAclProfileName, aclProfileName) ==
    [type |-> "solacebroker_msg_vpn_acl_profile",
     label |-> <<sanitizedAclProfileName>>,
     acl_profile_name |-> Quoted(aclProfileName),
     client_connect_default_action |-> "\"allow\"",
     msg_vpn_name |-> msgVpnNameValue,
     subscribe_share_name_default_action |-> "\"disallow\""]

ClientProfileNameValue(applicationType) ==
    IF applicationType = "publisher"
    THEN "solacebroker_msg_vpn_client_profile.NEMS_01_publisher-client-profile.client_profile_name"
    ELSE "solacebroker_msg_vpn_client_profile.NEMS_01_subscriber-client-profile.client_profile_name"

AuthGroupResource(sanitizedAuthProfileName, sanitizedAclProfileName, authProfileName, applicationType) ==
    [type |-> "solacebroker_msg_vpn_authorization_group",
     label |-> <<sanitizedAuthProfileName>>,
     acl_profile_name |->
         Reference("solacebroker_msg_vpn_acl_profile", sanitizedAclProfileName, "acl_profile_name"),
     authorization_group_name |-> Quoted(authProfileName),
     client_profile_name |-> ClientProfileNameValue(applicationType),
     enabled |-> "true",
     msg_vpn_name |-> msgVpnNameValue]

PublishExceptionResource(sanitizedAclProfileName, topic, index) ==
    [type |-> "solacebroker_msg_vpn_acl_profile_publish_topic_exception",
     label |-> <<sanitizedAclProfileName, "_publish_exception_", index>>,
     acl_profile_name |->
         Reference("solacebroker_msg_vpn_acl_profile", sanitizedAclProfileName, "acl_profile_name"),
     msg_vpn_name |-> msgVpnNameValue,
     publish_topic_exception |-> Quoted(convertTopicToUnicodeEscaped(topic.value)),
     publish_topic_exception_syntax |-> "\"smf\""]

SubscribeExceptionResource(sanitizedAclProfileName, topic, index) ==
    [type |-> "solacebroker_msg_vpn_acl_profile_subscribe_topic_exception",
     label |-> <<sanitizedAclProfileName, "_subscribe_exception_", index>>,
     acl_profile_name |->
         Reference("solacebroker_msg_vpn_acl_profile", sanitizedAclProfileName, "acl_profile_name"),
     msg_vpn_name |-> msgVpnNameValue,
     subscribe_topic_exception |-> Quoted(convertTopicToUnicodeEscaped(topic.value)),
     subscribe_topic_exception_syntax |-> "\"smf\""]

\* input.topics.forEach((topic, index) => ...): index counts from 0.
TopicExceptionResources(applicationType, sanitizedAclProfileName, topics) ==
    IF applicationType = "publisher"
    THEN [k \in 1..Len(topics) |->
             PublishExceptionResource(sanitizedAclProfileName, topics[k], k - 1)]
    ELSE IF applicationType = "subscriber"
    THEN [k \in 1..Len(topics) |->
             SubscribeExceptionResource(sanitizedAclProfileName, topics[k], k - 1)]
    ELSE <<>>

QueueResource(sanitizedQueueName, queueName, ownerId) ==
    [type |-> "solacebroker_msg_vpn_queue",
     label |-> <<sanitizedQueueName>>,
     egress_enabled |-> "true",
     event_bind_count_threshold |-> "{ clear_percent = 60, set_percent = 80 }",
     event_msg_spool_usage_threshold |-> "{ clear_percent = 18, set_percent = 25 }",
     event_reject_low_priority_msg_limit_threshold |-> "{ clear_percent = 60, set_percent = 80 }",
     ingress_enabled |-> "true",
     max_msg_size |-> "1e+06",
     max_msg_spool_usage |-> "500",
     msg_vpn_name |-> msgVpnNameValue,
     owner |-> Quoted(ownerId),
     queue_name |-> Quoted(queueName)]

QueueSubscriptionResource(sanitizedQueueName, topic, index) ==
    [type |-> "solacebroker_msg_vpn_queue_subscription",
     label |-> <<sanitizedQueueName, "_subscription_", index>>,
     msg_vpn_name |-> msgVpnNameValue,
     queue_name |-> Reference("solacebroker_msg_vpn_queue", sanitizedQueueName, "queue_name"),
     subscription_topic |-> Quoted(convertTopicToUnicodeEscaped(topic.value))]

\* A guard that forgets the application type.
EmitsQueueAnyType(in, ids, i) ==
    /\ Truthy(InstanceNames(in, i).instanceQueueName)
    /\ Truthy(InstanceNames(in, i).sanitizedQueueName)
    /\ Truthy(CurrentOwnerId(in, ids, i))
    /\ ~startsWith(Get(CurrentOwnerId(in, ids, i)), ErrorFetchingIdPrefix)

\* The guard of the queue block and of the queue subscriptions of instance i.
EmitsQueue(in, ids, i) ==
    /\ in.applicationType = "subscriber"
    /\ Truthy(InstanceNames(in, i).instanceQueueName)
    /\ Truthy(InstanceNames(in, i).sanitizedQueueName)
    /\ Truthy(CurrentOwnerId(in, ids, i))
    /\ ~startsWith(Get(CurrentOwnerId(in, ids, i)), ErrorFetchingIdPrefix)

\* A block list with the queue before the topic exceptions.
QueueFirstOrder(profile, auth, exceptions, queue, subscriptions) ==
    <<profile, auth>> \o queue \o exceptions \o subscriptions

\* [aclProfileResource, authGroupResource, ...topicExceptionResources], then
\* the queue block and the queue subscriptions pushed behind them.
BlockOrder(profile, auth, exceptions, queue, subscriptions) ==
    <<profile, auth>> \o exceptions \o queue \o subscriptions

\* instanceTerraformResources of instance i.
InstanceTerraformResources(in, ids, i) ==
    LET n == InstanceNames(in, i)
        emit == EmitsQueue(in, ids, i)
        queueResource ==
            IF emit
            THEN <<QueueResource(Get(n.sanitizedQueueName), Get(n.instanceQueueName),
                                 Get(CurrentOwnerId(in, ids, i)))>>
            ELSE <<>>
        queueSubscriptionResources ==
            IF emit
            THEN [k \in 1..Len(in.topics) |->
                     QueueSubscriptionResource(Get(n.sanitizedQueueName), in.topics[k], k - 1)]
            ELSE <<>>
    IN  BlockOrder(
            AclProfileResource(n.sanitizedAclProfileName, n.instanceAclProfileName),
            AuthGroupResource(n.sanitizedAuthProfileName, n.sanitizedAclProfileName,
                              n.instanceAuthProfileName, in.applicationType),
            TopicExceptionResources(in.applicationType, n.sanitizedAclProfileName, in.topics),
            queueResource,
            queueSubscriptionResources)

\* A marker written behind every instance, the last one too.
MarkerAfterEvery(i, numInstances) == IF numInstances > 1 THEN <<InstanceMarker>> ELSE <<>>

\* if (numInstances > 1 && i < numInstances) aggregatedFullTerraformConfig += marker
MarkerAfter(i, numInstances) ==
    IF numInstances > 1 /\ i < numInstances THEN <<InstanceMarker>> ELSE <<>>

\* Locals that go on from what the last call left.
StaleEntryLocals(in) ==
    [numInstances |-> NumInstances(in),
     aggregatedFullTerraformConfig |->
         IF result = None THEN <<>> ELSE Get(result).fullTerraformConfig,
     ownerIdMappingResult |-> <<>>,
     i |-> 1]

\* Locals whose loop bound is one too many.
EntryLocalsOneMore(in) ==
    [numInstances |-> NumInstances(in) + 1,
     aggregatedFullTerraformConfig |-> <<>>,
     ownerIdMappingResult |-> <<>>,
     i |-> 1]

\* The locals at the head of the loop: numInstances, the two accumulators, i.
EntryLocals(in) ==
    [numInstances |-> NumInstances(in),
     aggregatedFullTerraformConfig |-> <<>>,
     ownerIdMappingResult |-> <<>>,
     i |-> 1]

\* ownerIdMappingResult.trim() || undefined: without lines there is no mapping.
OwnerIdMapping(lines) == IF lines = <<>> THEN None ELSE Some(lines)

\* One pass of the loop body on the locals l: the blocks of instance l.i and
\* the marker are appended to the document, the mapping line to the mapping.
LoopPass(in, ids, l) ==
    [l EXCEPT
        !.aggregatedFullTerraformConfig =
            @ \o Join(InstanceTerraformResources(in, ids, l.i), BlockSeparator)
              \o MarkerAfter(l.i, l.numInstances),
        !.ownerIdMappingResult = @ \o MappingLines(in, ids, l.i),
        !.i = @ + 1]

\* return { fullTerraformConfig, ownerIdMapping }
ReturnValue(l) ==
    [fullTerraformConfig |-> l.aggregatedFullTerraformConfig,
     ownerIdMapping |-> OwnerIdMapping(l.ownerIdMappingResult)]

\* The loop from the locals l on, to its end.
RECURSIVE RunLoop(_, _, _)
RunLoop(in, ids, l) ==
    IF l.i <= l.numInstances THEN RunLoop(in, ids, LoopPass(in, ids, l)) ELSE l

\* A whole call of the generator, as the form makes it.
generateTerraformConfig(in, ids) == ReturnValue(RunLoop(in, ids, EntryLocals(in)))

(***************************************************************************)
(* The earlier single-instance generator.                                  *)
(***************************************************************************)
EmitsQueueV1(in) ==
    /\ in.applicationType = "subscriber"
    /\ Truthy(in.queueName)
    /\ sanitizeForTerraformResourceName(Get(in.queueName)) # <<>>
    /\ Truthy(in.ownerId)

generateTerraformConfigV1(in) ==
    LET sanitizedAclProfileName == sanitizeForTerraformResourceName(in.aclProfileName)
        sanitizedAuthProfileName == sanitizeForTerraformResourceName(in.authProfileName)
        aclProfileResource == AclProfileResource(sanitizedAclProfileName, in.aclProfileName)
        authGroupResource ==
            AuthGroupResource(sanitizedAuthProfileName, sanitizedAclProfileName,
                              in.authProfileName, in.applicationType)
        topicExceptionResources ==
            TopicExceptionResources(in.applicationType, sanitizedAclProfileName, in.topics)
        queueResource ==
            IF EmitsQueueV1(in)
            THEN <<QueueResource(sanitizeForTerraformResourceName(Get(in.queueName)),
                                 Get(in.queueName), Get(in.ownerId))>>
            ELSE <<>>
        queueSubscriptionResources ==
            IF EmitsQueueV1(in)
            THEN [k \in 1..Len(in.topics) |->
                     QueueSubscriptionResource(
                         sanitizeForTerraformResourceName(Get(in.queueName)), in.topics[k], k - 1)]
            ELSE <<>>
        allResources ==
            BlockOrder(aclProfileResource, authGroupResource, topicExceptionResources,
                       queueResource, queueSubscriptionResources)
    IN  [aclProfileResource |-> aclProfileResource,
         authGroupResource |-> authGroupResource,
         topicExceptionResources |-> topicExceptionResources,
         queueResource |-> queueResource,
         queueSubscriptionResources |-> queueSubscriptionResources,
         fullTerraformConfig |-> Join(allResources, BlockSeparator)]

(***************************************************************************)
(* The calls of the generator, on inputs that passed the schema.           *)
(***************************************************************************)
NoCall == [fn |-> "none"]

AuthName == Str(<<"A", "u", "t", "h", "-", "1">>)
QueueNames == {None, Some(Str(<<"Q", " ", "1">>)), Some(Str(<<"!", "!">>))}
FormOwnerIds == {None, Some(Str(<<"i", "d", "7">>))}
GeneratorTopics == {[value |-> TopicAStarGt], [value |-> Str(<<"b">>)]}
FetchedIdValues == {Str(<<"k", "1">>), ErrorFetchingIdPrefix \o Str(<<"1">>), <<>>}

RECURSIVE SeqsUpTo(_, _)
SeqsUpTo(S, n) ==
    IF n = 0 THEN {<<>>}
    ELSE LET shorter == SeqsUpTo(S, n - 1)
         IN  shorter \cup {Append(q, x) : q \in {t \in shorter : Len(t) = n - 1}, x \in S}

\* String.prototype.trim leaves nothing: the string is white space only.
IsBlank(s) == \A k \in 1..Len(s) : s[k] \in {9, 10, 11, 12, 13, 32, 160}

ErrorFetchingIdSentinel ==
    Str(<<"E", "r", "r", "o", "r", " ", "f", "e", "t", "c", "h", "i", "n", "g", " ", "I", "D">>)

\* The condition of the refinements without the instance count.
AnySubscriber(in) == in.applicationType = "subscriber"

\* data.applicationType === "subscriber" && (!data.numberOfInstances || data.numberOfInstances === 1)
SingleSubscriber(in) ==
    /\ in.applicationType = "subscriber"
    /\ ~IsSome(in.numberOfInstances) \/ Get(in.numberOfInstances) \in {0, 1}

\* profileConfiguratorSchema: the fields and the two refinements.
SchemaAccepts(in) ==
    /\ in.applicationType \in {"publisher", "subscriber"}
    /\ Len(in.authProfileName) >= 1
    /\ Len(in.aclProfileName) >= 1
    /\ Len(in.topics) >= 1
    /\ \A k \in 1..Len(in.topics) : Len(in.topics[k].value) >= 1
    /\ IsSome(in.numberOfInstances) => Get(in.numberOfInstances) >= 1
    /\ SingleSubscriber(in) => Truthy(in.queueName) /\ ~IsBlank(Get(in.queueName))
    /\ SingleSubscriber(in) =>
           /\ Truthy(in.ownerId)
           /\ ~IsBlank(Get(in.ownerId))
           /\ Get(in.ownerId) # ErrorFetchingIdSentinel

CandidateInputs ==
    {[applicationType |-> t,
      authProfileName |-> AuthName,
      aclProfileName |-> MyAcl,
      queueName |-> q,
      ownerId |-> o,
      topics |-> ts,
      numberOfInstances |-> n] :
         t \in {"publisher", "subscriber"},
         q \in QueueNames,
         o \in FormOwnerIds,
         ts \in SeqsUpTo(GeneratorTopics, MaxTopics),
         n \in {None} \cup {Some(k) : k \in 1..MaxInstances}}

\* The generator runs on what the schema accepted.
GeneratorInputs == {in \in CandidateInputs : SchemaAccepts(in)}

FetchedOwnerIdLists == {None} \cup {Some(l) : l \in SeqsUpTo(FetchedIdValues, MaxOwnerIds)}

Init ==
    /\ pc = "ready"
    /\ input \in GeneratorInputs
    /\ fetchedOwnerIds \in FetchedOwnerIdLists
    /\ locals = None
    /\ result = None
    /\ previous = None
    /\ resultV1 = None
    /\ arg = NoCall
    /\ ret = None
    /\ form = None
    /\ pending = None

\* generateTerraformConfig(input, fetchedOwnerIds) is called: lines 53 to 57.
Call ==
    /\ pc = "ready"
    /\ locals' = Some(EntryLocals(input))
    /\ pc' = "loop"
    /\ UNCHANGED <<input, fetchedOwnerIds, result, previous, resultV1, arg, ret, form, pending>>

\* One pass of the loop body, for instance i.
LoopBody ==
    /\ pc = "loop"
    /\ Get(locals).i <= Get(locals).numInstances
    /\ locals' = Some(LoopPass(input, fetchedOwnerIds, Get(locals)))
    /\ UNCHANGED <<pc, input, fetchedOwnerIds, result, previous, resultV1, arg, ret, form, pending>>

\* The loop is over: the call returns and its locals are gone.
Return ==
    /\ pc = "loop"
    /\ Get(locals).i > Get(locals).numInstances
    /\ result' = Some(ReturnValue(Get(locals)))
    /\ locals' = None
    /\ pc' = "returned"
    /\ UNCHANGED <<input, fetchedOwnerIds, previous, resultV1, arg, ret, form, pending>>

\* The generator is called a second time with the same arguments.
CallAgain ==
    /\ pc = "returned"
    /\ previous = None
    /\ previous' = result
    /\ result' = None
    /\ locals' = Some(EntryLocals(input))
    /\ pc' = "loop"
    /\ UNCHANGED <<input, fetchedOwnerIds, resultV1, arg, ret, form, pending>>

\* The earlier generator is called with the input.
CallV1 ==
    /\ pc = "ready"
    /\ resultV1' = Some(generateTerraformConfigV1(input))
    /\ pc' = "returnedV1"
    /\ UNCHANGED <<input, fetchedOwnerIds, locals, result, previous, arg, ret, form, pending>>

\* One call of either generator.
Next == Call \/ LoopBody \/ Return \/ CallV1

Spec == Init /\ [][Next]_vars

\* A call that has started goes on: the generator is synchronous code, each
\* pass of its loop and its return are taken as soon as they can be.
\* The fairness of LoopBody is WF_vars(LoopBody) with ENABLED <<LoopBody>>_vars
\* written out: it is the loop condition i <= numInstances.
LoopBodyEnabled == pc = "loop" /\ Get(locals).i <= Get(locals).numInstances

LoopBodyFairness == []<>(~LoopBodyEnabled) \/ []<><<LoopBody>>_vars

TerminationSpec == Init /\ [][Next]_vars /\ LoopBodyFairness /\ WF_vars(Return)

\* The same, with a second call of generateTerraformConfig behind the first.
RepeatNext == Call \/ LoopBody \/ Return \/ CallAgain \/ CallV1

RepeatSpec == Init /\ [][RepeatNext]_vars

(***************************************************************************)
(* The form component, in its three versions: "autoGenerate" is            *)
(* src/components/profile-configurator-form.tsx (one instance, the owner   *)
(* ID fetched by an effect), "batchFetch" is the first component with a    *)
(* number of instances and a Fetch button, "dummyIds" the one that also    *)
(* has a button for dummy IDs.  form holds the field values and the React  *)
(* state of the component; pending holds the fetch handlers that wait for  *)
(* their request (each is at its await).  An absent application type is    *)
(* the string "undefined".                                                 *)
(***************************************************************************)
FormVersions == {"autoGenerate", "batchFetch", "dummyIds"}

FormMaxInstances == 2
FormMaxTopics == 2
MaxPending == 2

IsMulti(f) == f.version \in {"batchFetch", "dummyIds"}

\* defaultValues of useForm
DefaultValues(version) ==
    [applicationType |-> "undefined",
     authProfileName |-> <<>>,
     aclProfileName |-> <<>>,
     queueName |-> Some(<<>>),
     ownerId |-> Some(<<>>),
     topics |-> <<[value |-> <<>>]>>,
     numberOfInstances |-> IF version = "autoGenerate" THEN None ELSE Some(1)]

\* The component after its first render.
InitialForm(version) ==
    [version |-> version,
     values |-> DefaultValues(version),
     generatedTerraform |-> None,
     ownerIdMappingContent |-> None,
     isFetchingOwnerId |-> FALSE,
     isFetchingDummyId |-> FALSE,
     fetchedOwnerIds |-> <<>>,
     autoGenerateOwnerId |-> TRUE]

\* What the identity provider answers, what the dummy generator makes, and
\* what the user types.
FetchedClientIds == {Str(<<"k", "1">>), <<>>}
DummyIds == {Str(<<"k", "1">>)}
TypedOwnerIds == {Str(<<"i", "d", "7">>), ErrorFetchingIdSentinel}
TypedQueueNames == {Str(<<"Q", " ", "1">>)}
TypedTopics == {Str(<<"b">>)}

isFetchingAnyId(f) == f.isFetchingOwnerId \/ f.isFetchingDummyId

ClearOutputs(f) == [f EXCEPT !.generatedTerraform = None, !.ownerIdMappingContent = None]

\* onFormValueChange, or setGeneratedTerraform(null) in the autoGenerate form.
onFormValueChange(f) ==
    IF f.version = "dummyIds"
    THEN IF NumInstances(f.values) = 1 /\ Len(f.fetchedOwnerIds) > 0
         THEN [ClearOutputs(f) EXCEPT !.fetchedOwnerIds = <<>>]
         ELSE ClearOutputs(f)
    ELSE ClearOutputs(f)

\* The effect of the autoGenerate form, run when the application type or the
\* toggle has changed: performOwnerIdFetch up to its await.
StartsAutoFetch(f) ==
    /\ f.version = "autoGenerate"
    /\ f.values.applicationType = "subscriber"
    /\ f.autoGenerateOwnerId

AutoFetch == [kind |-> "auto", numInstancesToFetch |-> 1, ids |-> <<>>, issued |-> 1]

AfterEffect(f) ==
    IF StartsAutoFetch(f)
    THEN [f EXCEPT !.isFetchingOwnerId = TRUE, !.values.ownerId = Some(<<>>)]
    ELSE f

PendingAfterEffect(f) == IF StartsAutoFetch(f) THEN Append(pending, AutoFetch) ELSE pending

\* handleApplicationTypeChange(value)
handleApplicationTypeChange(f, value) ==
    IF IsMulti(f)
    THEN LET g == [ClearOutputs(f) EXCEPT !.values.applicationType = value,
                                           !.values.ownerId = Some(<<>>),
                                           !.fetchedOwnerIds = <<>>]
         IN  IF value # "subscriber" THEN [g EXCEPT !.values.queueName = Some(<<>>)] ELSE g
    ELSE LET g == [f EXCEPT !.values.applicationType = value, !.generatedTerraform = None]
         IN  IF value # "subscriber"
             THEN [g EXCEPT !.values.queueName = Some(<<>>), !.values.ownerId = Some(<<>>)]
             ELSE g

\* handleAutoGenerateToggle(checked)
handleAutoGenerateToggle(f, checked) ==
    LET g == [f EXCEPT !.autoGenerateOwnerId = checked, !.generatedTerraform = None]
    IN  IF ~checked /\ f.values.applicationType = "subscriber"
        THEN [g EXCEPT !.values.ownerId = Some(<<>>)]
        ELSE g

\* readOnly and disabled of the inputs, and the fields that are rendered.
FieldEditable(f, field) ==
    CASE field = "queueName" -> f.values.applicationType = "subscriber"
      [] field = "ownerId" ->
            CASE f.version = "autoGenerate" ->
                     /\ f.values.applicationType = "subscriber"
                     /\ ~f.isFetchingOwnerId
                     /\ ~f.autoGenerateOwnerId
              [] f.version = "batchFetch" ->
                     /\ ~f.isFetchingOwnerId
                     /\ ~(f.values.applicationType = "subscriber" /\ NumInstances(f.values) > 1)
              [] OTHER ->
                     /\ ~isFetchingAnyId(f)
                     /\ ~(NumInstances(f.values) > 1)
      [] OTHER -> TRUE

FieldInputs(field) ==
    CASE field = "authProfileName" -> {AuthName}
      [] field = "aclProfileName" -> {MyAcl}
      [] field = "queueName" -> {Some(q) : q \in TypedQueueNames}
      [] OTHER -> {Some(o) : o \in TypedOwnerIds}

\* disabled of the Generate button.
SubmitEnabled(f) ==
    CASE f.version = "autoGenerate" ->
             ~(f.values.applicationType = "subscriber" /\ f.autoGenerateOwnerId
                 /\ f.isFetchingOwnerId)
      [] f.version = "batchFetch" ->
             ~f.isFetchingOwnerId /\ f.values.applicationType # "undefined"
      [] OTHER ->
             ~isFetchingAnyId(f) /\ f.values.applicationType # "undefined"

SomePlaceholder(ids) == \E k \in 1..Len(ids) : startsWith(ids[k], ErrorFetchingIdPrefix)

\* The guards of onSubmit: none of its early returns is taken.
OnSubmitGenerates(f) ==
    LET subscriber == f.values.applicationType = "subscriber"
        numInstances == NumInstances(f.values)
    IN  CASE f.version = "autoGenerate" ->
                 ~(subscriber /\ f.autoGenerateOwnerId
                     /\ f.values.ownerId = Some(ErrorFetchingIdSentinel))
          [] f.version = "batchFetch" ->
                 /\ ~(subscriber /\ numInstances > 1 /\ Len(f.fetchedOwnerIds) # numInstances)
                 /\ ~(subscriber /\ numInstances > 1 /\ SomePlaceholder(f.fetchedOwnerIds))
                 /\ ~(subscriber /\ numInstances = 1
                        /\ f.values.ownerId = Some(ErrorFetchingIdSentinel))
          [] OTHER ->
                 /\ ~(subscriber /\ numInstances > 1 /\ Len(f.fetchedOwnerIds) # numInstances)
                 /\ ~(subscriber /\ numInstances > 1 /\ SomePlaceholder(f.fetchedOwnerIds))
                 /\ ~(subscriber /\ numInstances = 1
                        /\ (f.values.ownerId = Some(ErrorFetchingIdSentinel)
                              \/ ~Truthy(f.values.ownerId)))

\* ownerIdsForGenerator
OwnerIdsForGenerator(f) ==
    CASE f.version = "autoGenerate" -> None
      [] f.version = "batchFetch" ->
             IF f.values.applicationType = "subscriber" /\ NumInstances(f.values) > 1
             THEN Some(f.fetchedOwnerIds) ELSE None
      [] OTHER ->
             IF NumInstances(f.values) > 1 THEN Some(f.fetchedOwnerIds) ELSE None

\* onSubmit(values), called by handleSubmit when the schema accepts the values.
onSubmit(f) ==
    IF ~OnSubmitGenerates(f) THEN f
    ELSE LET tfOutput == generateTerraformConfig(f.values, OwnerIdsForGenerator(f))
         IN  [f EXCEPT
                 !.generatedTerraform = Some(tfOutput),
                 !.ownerIdMappingContent =
                     CASE f.version = "autoGenerate" -> @
                       [] f.version = "batchFetch" ->
                              IF tfOutput.ownerIdMapping # None THEN tfOutput.ownerIdMapping ELSE @
                       [] OTHER -> tfOutput.ownerIdMapping]

\* A placeholder numbered from 0.
PlaceholderFromZero(i) == ErrorFetchingIdPrefix \o toString10(i)

\* `ErrorFetchingID_${i + 1}`
Placeholder(i) == ErrorFetchingIdPrefix \o toString10(i + 1)

IsBatch(h) == h.kind \in {"batch", "dummyBatch"}
IsDummy(h) == h.kind \in {"dummyBatch", "dummySingle"}

\* How the awaited request (or timer) of a handler can settle: fulfilled with
\* an ID (Some), or rejected (None).
Outcomes(h) ==
    IF IsDummy(h) THEN {Some(d) : d \in DummyIds}
    ELSE {None} \cup {Some(c) : c \in FetchedClientIds}

\* The entry a batch handler pushes for the request that has settled.
Pushed(h, outcome) == IF IsSome(outcome) THEN Get(outcome) ELSE Placeholder(Len(h.ids))

Remove(s, k) == SubSeq(s, 1, k - 1) \o SubSeq(s, k + 1, Len(s))

\* A handler that never takes its fetching flag back.
FetchingStays(f, h) == f

FetchingDone(f, h) ==
    IF IsDummy(h) THEN [f EXCEPT !.isFetchingDummyId = FALSE]
    ELSE [f EXCEPT !.isFetchingOwnerId = FALSE]

FormInit ==
    /\ pc = "off"
    /\ input = None
    /\ fetchedOwnerIds = None
    /\ locals = None
    /\ result = None
    /\ previous = None
    /\ resultV1 = None
    /\ arg = NoCall
    /\ ret = None
    /\ form \in {InitialForm(v) : v \in FormVersions}
    /\ pending = <<>>

generatorVars == <<pc, input, fetchedOwnerIds, locals, result, previous, resultV1, arg, ret>>

\* The user selects an application type.
ApplicationTypeChange ==
    \E value \in {"publisher", "subscriber"} :
        /\ value # form.values.applicationType
        /\ LET g == handleApplicationTypeChange(form, value)
           IN  /\ StartsAutoFetch(g) => Len(pending) < MaxPending
               /\ form' = AfterEffect(g)
               /\ pending' = PendingAfterEffect(g)
        /\ UNCHANGED generatorVars

\* The user flips the auto-generate switch (rendered for a subscriber).
AutoGenerateToggle ==
    /\ form.version = "autoGenerate"
    /\ form.values.applicationType = "subscriber"
    /\ LET g == handleAutoGenerateToggle(form, ~form.autoGenerateOwnerId)
       IN  /\ StartsAutoFetch(g) => Len(pending) < MaxPending
           /\ form' = AfterEffect(g)
           /\ pending' = PendingAfterEffect(g)
    /\ UNCHANGED generatorVars

\* The user types into one of the text fields.
EditField ==
    \E field \in {"authProfileName", "aclProfileName", "queueName", "ownerId"} :
        \E v \in FieldInputs(field) :
            /\ FieldEditable(form, field)
            /\ form.values[field] # v
            /\ form' = onFormValueChange([form EXCEPT !.values[field] = v])
            /\ UNCHANGED <<pending, generatorVars>>

\* The user changes the number of instances.
EditNumberOfInstances ==
    \E val \in 1..FormMaxInstances :
        /\ IsMulti(form)
        /\ form.values.numberOfInstances # Some(val)
        /\ LET g == onFormValueChange([form EXCEPT !.values.numberOfInstances = Some(val)])
           IN  form' = IF form.version = "batchFetch" THEN g
                       ELSE IF val = 1 THEN [g EXCEPT !.fetchedOwnerIds = <<>>]
                       ELSE [g EXCEPT !.values.ownerId = Some(<<>>)]
        /\ UNCHANGED <<pending, generatorVars>>

\* The user types a topic, adds a topic field or removes one.
EditTopic ==
    \E k \in 1..Len(form.values.topics) : \E v \in TypedTopics :
        /\ form.values.topics[k].value # v
        /\ form' = onFormValueChange([form EXCEPT !.values.topics[k] = [value |-> v]])
        /\ UNCHANGED <<pending, generatorVars>>

AppendTopic ==
    /\ Len(form.values.topics) < FormMaxTopics
    /\ form' = onFormValueChange([form EXCEPT !.values.topics = Append(@, [value |-> <<>>])])
    /\ UNCHANGED <<pending, generatorVars>>

RemoveTopic ==
    \E k \in 1..Len(form.values.topics) :
        /\ Len(form.values.topics) > 1
        /\ form' = onFormValueChange([form EXCEPT !.values.topics = Remove(@, k)])
        /\ UNCHANGED <<pending, generatorVars>>

\* handleFetchOwnerId up to its first await.
HandleFetchOwnerId ==
    /\ IsMulti(form)
    /\ ~isFetchingAnyId(form)
    /\ form.values.applicationType # "undefined"
    /\ LET numInstancesToFetch == NumInstances(form.values)
           batch == IF form.version = "batchFetch"
                    THEN numInstancesToFetch > 1 /\ form.values.applicationType = "subscriber"
                    ELSE numInstancesToFetch > 1
       IN  /\ form' = [ClearOutputs(form) EXCEPT !.isFetchingOwnerId = TRUE,
                                                 !.values.ownerId = Some(<<>>),
                                                 !.fetchedOwnerIds = <<>>]
           /\ pending' = Append(pending,
                                [kind |-> IF batch THEN "batch" ELSE "single",
                                 numInstancesToFetch |-> numInstancesToFetch,
                                 ids |-> <<>>,
                                 issued |-> 1])
    /\ UNCHANGED generatorVars

\* handleFetchDummyOwnerIds up to its first await.
HandleFetchDummyOwnerIds ==
    /\ form.version = "dummyIds"
    /\ ~isFetchingAnyId(form)
    /\ form.values.applicationType # "undefined"
    /\ LET numInstancesToFetch == NumInstances(form.values)
       IN  /\ form' = [ClearOutputs(form) EXCEPT !.isFetchingDummyId = TRUE,
                                                 !.values.ownerId = Some(<<>>),
                                                 !.fetchedOwnerIds = <<>>]
           /\ pending' = Append(pending,
                                [kind |-> IF numInstancesToFetch > 1
                                          THEN "dummyBatch" ELSE "dummySingle",
                                 numInstancesToFetch |-> numInstancesToFetch,
                                 ids |-> <<>>,
                                 issued |-> 1])
    /\ UNCHANGED generatorVars

\* The request handler k waits for settles with the outcome, and the handler
\* runs on to its next await or to its end.
Settle(k, outcome) ==
    LET h == pending[k]
        ids == Append(h.ids, Pushed(h, outcome))
    IN  /\ IF IsBatch(h)
           THEN IF Len(ids) < h.numInstancesToFetch
                THEN /\ pending' = [pending EXCEPT ![k] = [h EXCEPT !.ids = ids,
                                                                    !.issued = @ + 1]]
                     /\ form' = form
                ELSE /\ pending' = Remove(pending, k)
                     /\ form' = FetchingDone([form EXCEPT !.fetchedOwnerIds = ids], h)
           ELSE /\ pending' = Remove(pending, k)
                /\ form' = FetchingDone(
                       [form EXCEPT !.values.ownerId =
                            IF IsSome(outcome) THEN outcome ELSE Some(ErrorFetchingIdSentinel)],
                       h)
        /\ UNCHANGED generatorVars

RequestSettles ==
    \E k \in 1..Len(pending) : \E outcome \in Outcomes(pending[k]) : Settle(k, outcome)

\* A click on Generate: handleSubmit validates the values and calls onSubmit.
Submit ==
    /\ SubmitEnabled(form)
    /\ form' = IF SchemaAccepts(form.values) THEN onSubmit(form) ELSE form
    /\ UNCHANGED <<pending, generatorVars>>

FormNext ==
    \/ ApplicationTypeChange
    \/ AutoGenerateToggle
    \/ EditField
    \/ EditNumberOfInstances
    \/ EditTopic
    \/ AppendTopic
    \/ RemoveTopic
    \/ HandleFetchOwnerId
    \/ HandleFetchDummyOwnerIds
    \/ RequestSettles
    \/ Submit

FormSpec == FormInit /\ [][FormNext]_vars

(***************************************************************************)
(* The form with its fetch handlers also called while no application type  *)
(* is selected (the buttons are disabled then, the handlers have an early  *)
(* return for it), and with every request settling in the end.             *)
(***************************************************************************)
\* The handlers with the early return: those of the form with the dummy IDs.
FetchHandlers(version) ==
    IF version = "dummyIds" THEN {"handleFetchOwnerId", "handleFetchDummyOwnerIds"} ELSE {}

\* What a handler that finds no application type leaves behind: the flag is
\* set and taken back in the same run, the owner IDs and the outputs are cleared.
EarlyReturn(f) ==
    [ClearOutputs(f) EXCEPT !.values.ownerId = Some(<<>>), !.fetchedOwnerIds = <<>>]

FetchInit ==
    /\ pc = "off"
    /\ input = None
    /\ fetchedOwnerIds = None
    /\ locals = None
    /\ result = None
    /\ previous = None
    /\ resultV1 = None
    /\ form \in {InitialForm(v) : v \in FormVersions}
    /\ arg \in {NoCall} \cup {[fn |-> h] : h \in FetchHandlers(form.version)}
    /\ ret = None
    /\ pending = <<>>

\* handleFetchOwnerId or handleFetchDummyOwnerIds run with no application type.
FetchWithoutType ==
    /\ arg.fn \in FetchHandlers(form.version)
    /\ ret = None
    /\ form.values.applicationType = "undefined"
    /\ ~isFetchingAnyId(form)
    /\ form' = EarlyReturn(form)
    /\ ret' = Some("returned")
    /\ UNCHANGED <<pc, input, fetchedOwnerIds, locals, result, previous, resultV1, arg, pending>>

FetchNext == FormNext \/ FetchWithoutType

\* Every request settles: a handler that waits is resumed in the end.
RequestsSettle == []<>(pending = <<>>) \/ []<><<RequestSettles>>_vars

FetchSpec == FetchInit /\ [][FetchNext]_vars /\ RequestsSettle

(***************************************************************************)
(* The helpers called on their own: the argument is drawn in the initial   *)
(* state and one call applies the function.                                *)
(***************************************************************************)
AssemblerOff ==
    /\ pc = "off"
    /\ input = None
    /\ fetchedOwnerIds = None
    /\ locals = None
    /\ result = None
    /\ previous = None
    /\ resultV1 = None
    /\ form = None
    /\ pending = None

assemblerVars == <<pc, input, fetchedOwnerIds, locals, result, previous, resultV1,
                   form, pending>>

NameAlphabet ==
    {Code("A"), Code("b"), Code("7"), Code("_"), Code("!"),
     NonAscii.kelvin, NonAscii.capitalIDot, NonAscii.grinningFace}

NameInputs == StringsUpTo(NameAlphabet, MaxNameLen) \cup {MyAcl}

SanitizerInit ==
    /\ AssemblerOff
    /\ arg \in {[fn |-> "sanitize", name |-> n] : n \in NameInputs}
    /\ ret = None

SanitizeCall ==
    /\ arg.fn = "sanitize"
    /\ ret = None
    /\ ret' = Some(sanitizeForTerraformResourceName(arg.name))
    /\ UNCHANGED <<arg, assemblerVars>>

SanitizerNext == SanitizeCall

SanitizerSpec == SanitizerInit /\ [][SanitizerNext]_vars

TopicAlphabet ==
    {Code("a"), Code("7"), Code("/"), Code("*"), Code(">"), Code("\\"),
     NonAscii.eAcute, NonAscii.grinningFace}

TopicInputs == StringsUpTo(TopicAlphabet, MaxTopicLen) \cup {TopicAStarGt, EscapedGt}

EscaperInit ==
    /\ AssemblerOff
    /\ arg \in {[fn |-> "escape", variant |-> v, topicValue |-> t] :
                    v \in EscaperVariants, t \in TopicInputs}
    /\ ret = None

EscapeCall ==
    /\ arg.fn = "escape"
    /\ ret = None
    /\ ret' = Some(Escape(arg.variant, arg.topicValue))
    /\ UNCHANGED <<arg, assemblerVars>>

EscaperNext == EscapeCall

EscaperSpec == EscaperInit /\ [][EscaperNext]_vars

\* The name derivation of the loop body on its own: a call with N instances
\* reaches every index i of 1..N; the first indices and the last one are drawn.
NamesInputs ==
    {[applicationType |-> "publisher",
      authProfileName |-> AuthName,
      aclProfileName |-> a,
      queueName |-> q,
      ownerId |-> None,
      topics |-> <<[value |-> TopicAStarGt]>>,
      numberOfInstances |-> n] :
         a \in {MyAcl, Str(<<"!", "!">>)},
         q \in QueueNames,
         n \in {None} \cup {Some(k) : k \in 1..MaxInstanceNumber}}

\* The indices drawn for an input: the first MaxInstances ones and the last.
NamesIndices(in) ==
    {i \in 1..MaxInstances : i <= NumInstances(in)} \cup {NumInstances(in)}

NamesInit ==
    /\ AssemblerOff
    /\ arg \in UNION {{[fn |-> "names", input |-> in, i |-> i] : i \in NamesIndices(in)} :
                         in \in NamesInputs}
    /\ ret = None

NamesCall ==
    /\ arg.fn = "names"
    /\ ret = None
    /\ ret' = Some(InstanceNames(arg.input, arg.i))
    /\ UNCHANGED <<arg, assemblerVars>>

NamesNext == NamesCall

NamesSpec == NamesInit /\ [][NamesNext]_vars

(***************************************************************************)
(* Claims about the sanitizer and the escapers.                            *)
(***************************************************************************)
Underscores(n) == [k \in 1..n |-> Underscore]

NameChars ==
    {Code(c) : c \in {"a", "b", "c", "d", "e", "f", "g", "h", "i", "j", "k", "l", "m",
                      "n", "o", "p", "q", "r", "s", "t", "u", "v", "w", "x", "y", "z",
                      "0", "1", "2", "3", "4", "5", "6", "7", "8", "9", "_"}}

\* The lowercased name, character (UTF-16 code unit) by character, with every
\* character outside [a-z0-9_] turned into "_".
LoweredAndReplaced(name) ==
    LET u == ToUnits(toLowerCase(name))
    IN  [k \in 1..Len(u) |-> IF u[k] \in NameChars THEN u[k] ELSE Underscore]

OnlySymbols(name) == \A k \in 1..Len(name) : toLowerCase(<<name[k]>>)[1] \notin NameChars \ {Underscore}

\* C7: the sanitizer returns the lowercased input with every character outside
\* [a-z0-9_] replaced by "_" and the leading and trailing "_" removed: the
\* result is what is left of that string between its leading and its trailing
\* run of "_", it holds only characters of [a-z0-9_], it neither starts nor
\* ends with "_"; the empty string and a string of symbols only give the empty
\* string, and "My ACL!" gives "my_acl".
C7_SanitizerContract ==
    (arg.fn = "sanitize" /\ ret # None) =>
        LET out == Get(ret)
            full == LoweredAndReplaced(arg.name)
        IN  /\ \A k \in 1..Len(out) : out[k] \in NameChars
            /\ out # <<>> => (out[1] # Underscore /\ out[Len(out)] # Underscore)
            /\ \E lead \in 0..Len(full) : \E trail \in 0..Len(full) :
                   full = Underscores(lead) \o out \o Underscores(trail)
            /\ arg.name = <<>> => out = <<>>
            /\ OnlySymbols(arg.name) => out = <<>>
            /\ arg.name = MyAcl => out = Str(<<"m", "y", "_", "a", "c", "l">>)

C7_Witness ==
    /\ arg.fn = "sanitize" /\ arg.name = MyAcl
    /\ ret = Some(Str(<<"m", "y", "_", "a", "c", "l">>))

CountGtBefore(s, k) == Cardinality({j \in 1..(k - 1) : s[j] = Code(">")})

\* C8: the current escaper replaces every ">" by the six characters \\u003e
\* and leaves every other character unchanged and in place: character k of the
\* input is found in the output behind the k - 1 characters before it, five
\* places later for each ">" among them, as itself or, for ">", as \\u003e;
\* the output holds nothing else, and an input without ">" is returned as is.
C8_GtEscaperContract ==
    (arg.fn = "escape" /\ arg.variant = "gt" /\ ret # None) =>
        LET in == arg.topicValue
            out == Get(ret)
            at(k) == k + 5 * CountGtBefore(in, k)
        IN  /\ Len(out) = Len(in) + 5 * CountGtBefore(in, Len(in) + 1)
            /\ \A k \in 1..Len(in) :
                   IF in[k] = Code(">")
                   THEN SubSeq(out, at(k), at(k) + 5) = Str(<<"\\", "u", "0", "0", "3", "e">>)
                   ELSE out[at(k)] = in[k]
            /\ CountGtBefore(in, Len(in) + 1) = 0 => out = in

C8_Witness ==
    /\ arg.fn = "escape" /\ arg.variant = "gt"
    /\ arg.topicValue = TopicAStarGt
    /\ ret = Some(Str(<<"a", "/", "*", "/", "\\", "u", "0", "0", "3", "e">>))

AsciiAlnum == {cp \in 48..122 : IsDigit(cp) \/ IsUpperAZ(cp) \/ IsLowerAZ(cp)}

PassThroughSet(variant) ==
    IF variant = "slashStar" THEN AsciiAlnum \cup {Code("/"), Code("*")} ELSE AsciiAlnum

HexValue(c) ==
    IF IsDigit(c) THEN c - 48
    ELSE IF c >= 97 /\ c <= 102 THEN c - 87
    ELSE IF c >= 65 /\ c <= 70 THEN c - 55
    ELSE -1

IsEscapeSequence(s) ==
    /\ Len(s) = 6
    /\ s[1] = Code("\\")
    /\ s[2] = Code("u")
    /\ \A k \in 3..6 : HexValue(s[k]) >= 0

EscapeValue(s) ==
    HexValue(s[3]) * 4096 + HexValue(s[4]) * 256 + HexValue(s[5]) * 16 + HexValue(s[6])

RECURSIVE WidthBefore(_, _, _)
WidthBefore(variant, s, k) ==
    IF k <= 1 THEN 0
    ELSE WidthBefore(variant, s, k - 1)
         + (IF s[k - 1] \in PassThroughSet(variant) THEN 1 ELSE 6)

\* C9: in the full-escape escapers every character of the pass-through set
\* (ASCII letters and digits, and "/" and "*" in the slash/asterisk version) is
\* copied unchanged and every other character is replaced by a backslash, "u"
\* and exactly four hexadecimal digits, zero-padded on the left (for a
\* character up to U+FFFF they spell its code), so that the output is made of
\* pass-through characters and such six-character sequences only.
C9_FullEscapeContract ==
    (arg.fn = "escape" /\ arg.variant \in FullEscapeVariants /\ ret # None) =>
        LET in == arg.topicValue
            out == Get(ret)
            v == arg.variant
            at(k) == WidthBefore(v, in, k) + 1
        IN  /\ Len(out) = WidthBefore(v, in, Len(in) + 1)
            /\ \A k \in 1..Len(in) :
                   IF in[k] \in PassThroughSet(v)
                   THEN out[at(k)] = in[k]
                   ELSE LET seq == SubSeq(out, at(k), at(k) + 5)
                        IN  /\ IsEscapeSequence(seq)
                            /\ in[k] <= 65535 => EscapeValue(seq) = in[k]

C9_Witness ==
    /\ arg.fn = "escape" /\ arg.variant = "slashStar"
    /\ arg.topicValue = TopicAStarGt
    /\ ret = Some(Str(<<"a", "/", "*", "/", "\\", "u", "0", "0", "3", "e">>))

\* The code units an escaped topic denotes: each \uXXXX is the unit XXXX, any
\* other character stands for itself.
RECURSIVE DecodeUnits(_)
DecodeUnits(s) ==
    IF s = <<>> THEN <<>>
    ELSE IF Len(s) >= 6 /\ IsEscapeSequence(SubSeq(s, 1, 6))
         THEN <<EscapeValue(SubSeq(s, 1, 6))>> \o DecodeUnits(SubSeq(s, 7, Len(s)))
         ELSE UnitsOf(s[1]) \o DecodeUnits(Tail(s))

Decode(s) == FromUnits(DecodeUnits(s))

\* C10: the full-escape escapers lose nothing: decoding the \uXXXX sequences
\* of the output gives back exactly the input string, also for code points
\* above U+FFFF.
C10_FullEscapeRoundTrip ==
    (arg.fn = "escape" /\ arg.variant \in FullEscapeVariants /\ ret # None) =>
        Decode(Get(ret)) = arg.topicValue

(***************************************************************************)
(* Claims about the assembler.                                             *)
(***************************************************************************)
IsBlock(piece) == "type" \in DOMAIN piece

\* The pieces of each instance: the document cut at the instance markers.
RECURSIVE Segments(_)
Segments(doc) ==
    IF \E k \in 1..Len(doc) : doc[k] = InstanceMarker
    THEN LET m == CHOOSE k \in 1..Len(doc) :
                      doc[k] = InstanceMarker /\ \A j \in 1..(k - 1) : doc[j] # InstanceMarker
         IN  <<SubSeq(doc, 1, m - 1)>> \o Segments(SubSeq(doc, m + 1, Len(doc)))
    ELSE <<doc>>

BlocksIn(pieces) == SelectSeq(pieces, IsBlock)

OfType(blocks, type) == SelectSeq(blocks, LAMBDA b : b.type = type)

PublishType == "solacebroker_msg_vpn_acl_profile_publish_topic_exception"
SubscribeType == "solacebroker_msg_vpn_acl_profile_subscribe_topic_exception"
QueueType == "solacebroker_msg_vpn_queue"
SubscriptionType == "solacebroker_msg_vpn_queue_subscription"
ProfileType == "solacebroker_msg_vpn_acl_profile"
AuthGroupType == "solacebroker_msg_vpn_authorization_group"

Returned == pc = "returned" /\ result # None
Config == Get(result).fullTerraformConfig
ConfigV1 == Get(resultV1).fullTerraformConfig
N == NumInstances(input)
K == Len(input.topics)
EscapedTopic(j) == Quoted(convertTopicToUnicodeEscaped(input.topics[j].value))

PublisherBlocks(blocks) ==
    /\ Len(OfType(blocks, PublishType)) = K
    /\ \A j \in 1..K : OfType(blocks, PublishType)[j].publish_topic_exception = EscapedTopic(j)
    /\ OfType(blocks, SubscribeType) = <<>>
    /\ OfType(blocks, QueueType) = <<>>
    /\ OfType(blocks, SubscriptionType) = <<>>

\* C1: for a publisher, whatever queue name and owner ID the input carries,
\* the output of each of the N instances holds exactly one publish-topic-
\* exception block per topic, in topic order, and no subscribe-topic-exception,
\* queue or queue-subscription block; so does the output of the earlier
\* single-instance generator.
C1_PublisherBlocks ==
    /\ (Returned /\ input.applicationType = "publisher") =>
           /\ Len(Segments(Config)) = N
           /\ \A s \in 1..Len(Segments(Config)) : PublisherBlocks(BlocksIn(Segments(Config)[s]))
    /\ (resultV1 # None /\ input.applicationType = "publisher") =>
           PublisherBlocks(BlocksIn(ConfigV1))

C1_Witness ==
    /\ Returned
    /\ input.applicationType = "publisher"
    /\ Truthy(input.queueName) /\ Truthy(input.ownerId)
    /\ N = MaxInstances /\ K = MaxTopics
    /\ Len(OfType(BlocksIn(Config), PublishType)) = MaxInstances * MaxTopics

\* The owner identifier instance i is given: entry i of the fetched list for a
\* subscriber with several instances, when the list is there and the entry is
\* not empty, and the owner ID of the form otherwise.
OwnerGiven(i) ==
    IF /\ input.applicationType = "subscriber"
       /\ N > 1
       /\ IsSome(fetchedOwnerIds)
       /\ i <= Len(Get(fetchedOwnerIds))
       /\ Get(fetchedOwnerIds)[i] # <<>>
    THEN Get(fetchedOwnerIds)[i]
    ELSE IF IsSome(input.ownerId) THEN Get(input.ownerId) ELSE <<>>

OwnerResolved(i) == OwnerGiven(i) # <<>> /\ ~startsWith(OwnerGiven(i), ErrorFetchingIdPrefix)

\* The queue name of instance i makes a resource name.
QueueNameUsable(i) ==
    /\ Truthy(input.queueName)
    /\ sanitizeForTerraformResourceName(
           Get(input.queueName) \o generatePaddedSuffix(i, N)) # <<>>

SubscriberBlocks(blocks, i) ==
    /\ Len(OfType(blocks, QueueType)) = 1
    /\ OfType(blocks, QueueType)[1].owner = Quoted(OwnerGiven(i))
    /\ Len(OfType(blocks, SubscriptionType)) = K
    /\ \A j \in 1..K : OfType(blocks, SubscriptionType)[j].subscription_topic = EscapedTopic(j)
    /\ Len(OfType(blocks, SubscribeType)) = K
    /\ \A j \in 1..K : OfType(blocks, SubscribeType)[j].subscribe_topic_exception = EscapedTopic(j)
    /\ OfType(blocks, PublishType) = <<>>

IsDecimal(d) == \A k \in 1..Len(d) : IsDigit(d[k])

RECURSIVE DecimalValue(_)
DecimalValue(d) ==
    IF d = <<>> THEN 0 ELSE 10 * DecimalValue(SubSeq(d, 1, Len(d) - 1)) + (d[Len(d)] - 48)

EndsWith(s, tail) ==
    Len(s) >= Len(tail) /\ SubSeq(s, Len(s) - Len(tail) + 1, Len(s)) = tail

\* A sanitized instance name ends in the suffix; when the name itself is made
\* of symbols only, the "_" of the suffix is trimmed with them and the digits
\* are all that is left.
SanitizedEndsIn(sanitized, name, sfx) ==
    IF sanitizeForTerraformResourceName(name) # <<>>
    THEN EndsWith(sanitized, sfx)
    ELSE sanitized = Tail(sfx)

\* What C3 says of the names of instance i, with the suffix of exactly three
\* digits (exact) or of three digits or more.
SuffixedNames(exact) ==
    (arg.fn = "names" /\ ret # None) =>
        LET in == arg.input
            n == Get(ret)
            sfx == n.instanceSuffix
            digits == Tail(sfx)
        IN  /\ NumInstances(in) > 1 =>
                   /\ sfx # <<>> /\ Head(sfx) = Underscore
                   /\ IsDecimal(digits) /\ DecimalValue(digits) = arg.i
                   /\ IF exact \/ arg.i <= 999
                      THEN Len(digits) = 3
                      ELSE Len(digits) > 3 /\ Head(digits) # Code("0")
                   /\ EndsWith(n.instanceAclProfileName, sfx)
                   /\ EndsWith(n.instanceAuthProfileName, sfx)
                   /\ SanitizedEndsIn(n.sanitizedAclProfileName, in.aclProfileName, sfx)
                   /\ SanitizedEndsIn(n.sanitizedAuthProfileName, in.authProfileName, sfx)
                   /\ Truthy(in.queueName) =>
                          /\ EndsWith(Get(n.instanceQueueName), sfx)
                          /\ SanitizedEndsIn(Get(n.sanitizedQueueName), Get(in.queueName), sfx)
            /\ NumInstances(in) <= 1 => sfx = <<>>
            /\ n.instanceAclProfileName = in.aclProfileName \o sfx
            /\ n.instanceAuthProfileName = in.authProfileName \o sfx
            /\ Truthy(in.queueName) => n.instanceQueueName = Some(Get(in.queueName) \o sfx)
            /\ ~Truthy(in.queueName) => n.instanceQueueName = None /\ n.sanitizedQueueName = None
            /\ n.sanitizedAclProfileName =
                   sanitizeForTerraformResourceName(in.aclProfileName \o sfx)
            /\ n.sanitizedAuthProfileName =
                   sanitizeForTerraformResourceName(in.authProfileName \o sfx)
            /\ Truthy(in.queueName) =>
                   n.sanitizedQueueName =
                       Some(sanitizeForTerraformResourceName(Get(in.queueName) \o sfx))

CountMarkers(doc) == Cardinality({k \in 1..Len(doc) : doc[k] = InstanceMarker})

\* The instance a profile block belongs to, read off its name.
IsProfileOf(block, i) ==
    /\ block.type = ProfileType
    /\ block.acl_profile_name = Quoted(input.aclProfileName \o generatePaddedSuffix(i, N))

\* The markers of a document of which the first `done` instances are written:
\* one behind each instance but the last, each between the last block of an
\* instance and the profile block of the next one.
MarkersBetween(doc, done) ==
    /\ CountMarkers(doc) = (IF done < N THEN done ELSE N - 1)
    /\ doc # <<>> => doc[1] # InstanceMarker
    /\ (done = N /\ doc # <<>>) => doc[Len(doc)] # InstanceMarker
    /\ \A k \in 1..Len(doc) :
           doc[k] = InstanceMarker =>
               LET i == CountMarkers(SubSeq(doc, 1, k))
               IN  /\ k > 1 /\ IsBlock(doc[k - 1])
                   /\ \E j \in 1..(k - 1) : IsBlock(doc[j]) /\ IsProfileOf(doc[j], i)
                   /\ k < Len(doc) => IsBlock(doc[k + 1]) /\ IsProfileOf(doc[k + 1], i + 1)

\* C4: in the document of N instances the instance-boundary marker is written
\* exactly N - 1 times, once between the blocks of instance i and those of
\* instance i + 1 for every i of 1..N-1, and never before the first instance,
\* after the last one, or when N = 1.
C4_MarkerBetweenInstances ==
    /\ Returned => MarkersBetween(Config, N)
    /\ (pc = "loop" /\ locals # None) =>
           MarkersBetween(Get(locals).aggregatedFullTerraformConfig, Get(locals).i - 1)

C4_Witness ==
    /\ Returned
    /\ N = MaxInstances
    /\ CountMarkers(Config) = MaxInstances - 1

\* The blocks of one instance, whose names carry the suffix sfx, in the fixed
\* order.
InOrder(blocks, sfx) ==
    /\ Len(blocks) \in {2 + K, 3 + 2 * K}
    /\ blocks[1].type = ProfileType
    /\ blocks[1].acl_profile_name = Quoted(input.aclProfileName \o sfx)
    /\ blocks[2].type = AuthGroupType
    /\ blocks[2].authorization_group_name = Quoted(input.authProfileName \o sfx)
    /\ \A j \in 1..K :
           /\ blocks[2 + j].type \in {PublishType, SubscribeType}
           /\ blocks[2 + j].label[3] = j - 1
           /\ IF blocks[2 + j].type = PublishType
              THEN blocks[2 + j].publish_topic_exception = EscapedTopic(j)
              ELSE blocks[2 + j].subscribe_topic_exception = EscapedTopic(j)
    /\ Len(blocks) = 3 + 2 * K =>
           /\ blocks[3 + K].type = QueueType
           /\ \A j \in 1..K :
                  /\ blocks[3 + K + j].type = SubscriptionType
                  /\ blocks[3 + K + j].label[3] = j - 1
                  /\ blocks[3 + K + j].subscription_topic = EscapedTopic(j)

\* C5: within each instance the blocks come in the fixed order (profile,
\* authorization group, the topic exceptions in topic order, then, if emitted,
\* the queue and the queue subscriptions in topic order), the instances come in
\* increasing index order, and the document is exactly the join of these
\* blocks, a blank line between two blocks (and the marker between two
\* instances); the earlier single-instance generator orders and joins its
\* blocks the same way.
C5_BlockOrder ==
    /\ Returned =>
           /\ Len(Segments(Config)) = N
           /\ \A i \in 1..Len(Segments(Config)) :
                  LET pieces == Segments(Config)[i]
                  IN  /\ InOrder(BlocksIn(pieces), generatePaddedSuffix(i, N))
                      /\ pieces = Join(BlocksIn(pieces), BlockSeparator)
    /\ resultV1 # None =>
           /\ InOrder(BlocksIn(ConfigV1), <<>>)
           /\ ConfigV1 = Join(BlocksIn(ConfigV1), BlockSeparator)

C5_Witness ==
    /\ Returned
    /\ input.applicationType = "subscriber"
    /\ N = MaxInstances /\ K = MaxTopics
    /\ Len(BlocksIn(Config)) = MaxInstances * (3 + 2 * MaxTopics)

IsReference(v, type, attribute) ==
    /\ DOMAIN v = {"type", "label", "attribute"}
    /\ v.type = type
    /\ v.attribute = attribute

\* The blocks of the given type that carry the label, in a list of blocks.
Labelled(blocks, type, label) ==
    SelectSeq(blocks, LAMBDA b : b.type = type /\ b.label = <<label>>)

\* The value v is a reference to the one block of the type that the document
\* holds under that label, and this block is among the blocks of the instance.
RefersInto(v, type, attribute, blocks) ==
    /\ IsReference(v, type, attribute)
    /\ Len(Labelled(blocks, type, v.label)) = 1
    /\ Len(Labelled(BlocksIn(Config), type, v.label)) = 1

\* C11: in every instance of the generated document the authorization-group
\* block, every topic-exception block and every queue-subscription block name
\* their ACL profile or queue by resource reference
\* (solacebroker_msg_vpn_acl_profile.<name>.acl_profile_name,
\* solacebroker_msg_vpn_queue.<name>.queue_name) and not by the quoted name,
\* and the referenced profile or queue block is emitted in the same instance
\* (and in no other instance of the document); the profile block so referenced
\* is the one that carries the name of the instance.
C11_ReferencesWithinInstance ==
    Returned =>
        \A i \in 1..Len(Segments(Config)) :
            LET blocks == BlocksIn(Segments(Config)[i])
            IN  \A k \in 1..Len(blocks) :
                    LET b == blocks[k]
                    IN  /\ b.type \in {AuthGroupType, PublishType, SubscribeType} =>
                               /\ RefersInto(b.acl_profile_name, ProfileType,
                                             "acl_profile_name", blocks)
                               /\ IsProfileOf(
                                      Labelled(blocks, ProfileType, b.acl_profile_name.label)[1], i)
                        /\ b.type = SubscriptionType =>
                               /\ RefersInto(b.queue_name, QueueType, "queue_name", blocks)
                               /\ Labelled(blocks, QueueType, b.queue_name.label)[1].queue_name =
                                      Quoted(Get(input.queueName) \o generatePaddedSuffix(i, N))

C11_Witness ==
    /\ Returned
    /\ input.applicationType = "subscriber"
    /\ N = MaxInstances /\ K = MaxTopics
    /\ Len(OfType(BlocksIn(Config), SubscriptionType)) = MaxInstances * MaxTopics
    /\ \A k \in 1..Len(BlocksIn(Config)) :
           BlocksIn(Config)[k].type = SubscriptionType =>
               IsReference(BlocksIn(Config)[k].queue_name, QueueType, "queue_name")

Mapping == Get(result).ownerIdMapping

\* An owner ID is supplied for each of the N instances: the list holds N
\* entries, none of them empty and none an error placeholder.
OwnerIdForEachInstance ==
    /\ IsSome(fetchedOwnerIds)
    /\ Len(Get(fetchedOwnerIds)) = N
    /\ \A i \in 1..N :
           /\ Get(fetchedOwnerIds)[i] # <<>>
           /\ ~startsWith(Get(fetchedOwnerIds)[i], ErrorFetchingIdPrefix)

\* The mapping line of instance i: its number, its suffixed ACL name, its
\* suffixed queue name when the input has a queue name, and its owner ID.
MappingLineOf(i) ==
    [instance |-> i,
     acl |-> input.aclProfileName \o generatePaddedSuffix(i, N),
     queue |-> IF Truthy(input.queueName)
               THEN Some(Get(input.queueName) \o generatePaddedSuffix(i, N))
               ELSE None,
     owner |-> Quoted(Get(fetchedOwnerIds)[i])]

\* C12: whenever N > 1 instances are generated with an owner ID supplied for
\* each instance, the result carries an owner-ID mapping of exactly N lines,
\* line i naming the suffixed ACL (and queue) name of instance i and its
\* owner ID, for a publisher as well as for a subscriber; when N = 1 no
\* mapping is returned.
C12_MappingForEveryType ==
    Returned =>
        /\ (N > 1 /\ OwnerIdForEachInstance) =>
               /\ Mapping # None
               /\ Get(Mapping) = [i \in 1..N |-> MappingLineOf(i)]
        /\ N = 1 => Mapping = None

(***************************************************************************)
(* The schema on its own: safeParse of a form value.  A number of the form *)
(* is whole + half/2, so that a count that is no integer can be written;   *)
(* an application type that is not selected is the string "undefined".     *)
(***************************************************************************)
Number(whole, half) == [whole |-> whole, half |-> half]

\* z.number().int()
IsInt(o) == IsSome(o) => Get(o).half = 0

\* The parsed data: the count, once known to be an integer, is that integer.
ParsedData(data) ==
    [data EXCEPT !.numberOfInstances = IF IsSome(@) THEN Some(Get(@).whole) ELSE None]

\* profileConfiguratorSchema.safeParse(data): the parsed data, or no data.
safeParse(data) ==
    IF IsInt(data.numberOfInstances) /\ SchemaAccepts(ParsedData(data))
    THEN Some(ParsedData(data))
    ELSE None

Blanks == Str(<<" ", " ">>)

SchemaQueueNames == QueueNames \cup {Some(<<>>), Some(Blanks)}

SchemaOwnerIds ==
    FormOwnerIds \cup {Some(<<>>), Some(Blanks), Some(ErrorFetchingIdSentinel),
                       Some(ErrorFetchingIdPrefix \o Str(<<"1">>))}

SchemaInputs ==
    {[applicationType |-> t,
      authProfileName |-> auth,
      aclProfileName |-> acl,
      queueName |-> q,
      ownerId |-> o,
      topics |-> ts,
      numberOfInstances |-> n] :
         t \in {"undefined", "publisher", "subscriber", "consumer"},
         auth \in {<<>>, AuthName},
         acl \in {<<>>, MyAcl},
         q \in SchemaQueueNames,
         o \in SchemaOwnerIds,
         ts \in SeqsUpTo({[value |-> <<>>], [value |-> Str(<<"b">>)]}, MaxTopics),
         n \in {None} \cup {Some(Number(w, h)) : w \in (-1)..MaxInstances, h \in {0, 1}}}

SchemaInit ==
    /\ AssemblerOff
    /\ arg \in {[fn |-> "safeParse", data |-> d] : d \in SchemaInputs}
    /\ ret = None

SafeParseCall ==
    /\ arg.fn = "safeParse"
    /\ ret = None
    /\ ret' = Some(safeParse(arg.data))
    /\ UNCHANGED <<arg, assemblerVars>>

SchemaNext == SafeParseCall

SchemaSpec == SchemaInit /\ [][SchemaNext]_vars

\* A value that is absent, empty or white space only.
Blank(o) == ~IsSome(o) \/ \A k \in 1..Len(Get(o)) : Get(o)[k] \in {Code(" "), 9, 10, 13}

\* The count is absent or is the number 1.
CountAbsentOrOne(o) == ~IsSome(o) \/ Get(o) = Number(1, 0)

\* The rejections C13 lists, read off the form value.
Rejected(d) ==
    \/ d.applicationType \notin {"publisher", "subscriber"}
    \/ d.authProfileName = <<>>
    \/ d.aclProfileName = <<>>
    \/ d.topics = <<>>
    \/ \E k \in 1..Len(d.topics) : d.topics[k].value = <<>>
    \/ IsSome(d.numberOfInstances) /\
           ~(Get(d.numberOfInstances).half = 0 /\ Get(d.numberOfInstances).whole >= 1)
    \/ /\ d.applicationType = "subscriber"
       /\ CountAbsentOrOne(d.numberOfInstances)
       /\ \/ Blank(d.queueName)
          \/ Blank(d.ownerId)
          \/ d.ownerId = Some(ErrorFetchingIdSentinel)

\* C13: validation rejects a form value (no data comes out of it, so the
\* generator is not run) when the application type is missing or is neither
\* publisher nor subscriber, when the auth or the ACL profile name is empty,
\* when the topic list is empty or holds an empty topic, when the instance
\* count is present but is not an integer >= 1, or when the type is subscriber
\* with the count absent or 1 and the queue name is blank, the owner ID is
\* blank or the owner ID is "Error fetching ID"; every other value is accepted
\* and comes out unchanged.
C13_SchemaRejections ==
    (arg.fn = "safeParse" /\ ret # None) =>
        /\ Rejected(arg.data) <=> Get(ret) = None
        /\ ~Rejected(arg.data) => Get(ret) = Some(ParsedData(arg.data))

C13_Witness ==
    /\ arg.fn = "safeParse" /\ ret # None
    /\ Get(ret) = None
    /\ arg.data.applicationType = "subscriber"
    /\ arg.data.authProfileName # <<>> /\ arg.data.aclProfileName # <<>>
    /\ arg.data.topics = <<[value |-> Str(<<"b">>)]>>
    /\ arg.data.numberOfInstances = Some(Number(1, 0))
    /\ arg.data.queueName = Some(Str(<<"Q", " ", "1">>))
    /\ arg.data.ownerId = Some(ErrorFetchingIdSentinel)

(***************************************************************************)
(* Claims about the generator as a whole.                                  *)
(***************************************************************************)
\* C14: generateTerraformConfig is total on valid input: for every input the
\* schema accepts and every owner-ID list (absent, shorter than N, of length
\* N, holding error placeholders or empty entries) a call that has started
\* returns; each pass of the loop handles the next instance, the loop is
\* left after instance N, and the result then holds the document of exactly N
\* instances and a mapping that is absent or not empty.
C14_TotalOnValidInput ==
    /\ (pc = "loop") ~> Returned
    /\ [][(pc = "loop" /\ pc' = "loop") =>
             /\ Get(locals).i \in 1..N
             /\ Get(locals').i = Get(locals).i + 1]_vars
    /\ [][(pc = "loop" /\ pc' = "returned") => Get(locals).i = N + 1]_vars
    /\ [](Returned =>
             /\ Len(OfType(BlocksIn(Config), ProfileType)) = N
             /\ \A i \in 1..N : IsProfileOf(OfType(BlocksIn(Config), ProfileType)[i], i)
             /\ Mapping # None => Get(Mapping) # <<>>)

C14_Witness ==
    /\ Returned
    /\ input.applicationType = "subscriber"
    /\ N = MaxInstances
    /\ IsSome(fetchedOwnerIds)
    /\ Len(Get(fetchedOwnerIds)) = MaxInstances - 1
    /\ startsWith(Get(fetchedOwnerIds)[1], ErrorFetchingIdPrefix)
    /\ Get(fetchedOwnerIds)[2] = <<>>
    /\ ~Truthy(input.ownerId) /\ ~Truthy(input.queueName)

\* Instance i is handed an error placeholder by the list.
PlaceholderSupplied(i) ==
    /\ input.applicationType = "subscriber"
    /\ N > 1
    /\ IsSome(fetchedOwnerIds)
    /\ i <= Len(Get(fetchedOwnerIds))
    /\ startsWith(Get(fetchedOwnerIds)[i], ErrorFetchingIdPrefix)

\* The lines of a mapping that are not about instance i.
LinesButOf(mapping, i) ==
    IF mapping = None THEN <<>> ELSE SelectSeq(Get(mapping), LAMBDA line : line.instance # i)

\* The same call with a fetched ID in place of entry i of the list.
WithFetchedId(i) ==
    generateTerraformConfig(
        input, Some([Get(fetchedOwnerIds) EXCEPT ![i] = Str(<<"k", "1">>)]))

\* C17: in a multi-instance subscriber generation, an instance whose supplied
\* owner ID starts with "ErrorFetchingID_" gets no queue block and no queue-
\* subscription block, while its profile block, its authorization-group block
\* and its topic-exception blocks are emitted, and its line of the mapping
\* reads "Error - ID not fetched" in place of an ID; the blocks and the mapping
\* lines of the other instances are what they are when that entry is a
\* fetched ID.
C17_PlaceholderInstance ==
    Returned =>
        \A i \in 1..N :
            PlaceholderSupplied(i) =>
                LET blocks == BlocksIn(Segments(Config)[i])
                    lines == SelectSeq(Get(Mapping), LAMBDA line : line.instance = i)
                IN  /\ Len(Segments(Config)) = N
                    /\ OfType(blocks, QueueType) = <<>>
                    /\ OfType(blocks, SubscriptionType) = <<>>
                    /\ Len(OfType(blocks, ProfileType)) = 1
                    /\ IsProfileOf(OfType(blocks, ProfileType)[1], i)
                    /\ Len(OfType(blocks, AuthGroupType)) = 1
                    /\ Len(OfType(blocks, SubscribeType)) = K
                    /\ \A j \in 1..K :
                           OfType(blocks, SubscribeType)[j].subscribe_topic_exception =
                               EscapedTopic(j)
                    /\ Len(blocks) = 2 + K
                    /\ Mapping # None
                    /\ Len(lines) = 1
                    /\ lines[1].owner = Text("Error - ID not fetched")
                    /\ \A j \in 1..N :
                           j # i => Segments(Config)[j] =
                                        Segments(WithFetchedId(i).fullTerraformConfig)[j]
                    /\ LinesButOf(Mapping, i) = LinesButOf(WithFetchedId(i).ownerIdMapping, i)

C17_Witness ==
    /\ Returned
    /\ N = 3 /\ K = 2
    /\ PlaceholderSupplied(2)
    /\ Truthy(input.queueName) /\ QueueNameUsable(2)
    /\ OwnerResolved(1) /\ OwnerResolved(3)
    /\ Len(OfType(BlocksIn(Config), QueueType)) = 2
    /\ Len(Get(Mapping)) = 2

\* Entry i of the owner-ID list is there and is not empty.
HasEntry(i) ==
    /\ IsSome(fetchedOwnerIds)
    /\ i <= Len(Get(fetchedOwnerIds))
    /\ Get(fetchedOwnerIds)[i] # <<>>

\* The owners written in the queue blocks of instance i.
QueueOwners(i) ==
    {OfType(BlocksIn(Segments(Config)[i]), QueueType)[k].owner :
         k \in 1..Len(OfType(BlocksIn(Segments(Config)[i]), QueueType))}

FormOwner == Quoted(IF IsSome(input.ownerId) THEN Get(input.ownerId) ELSE <<>>)

\* C18: in a multi-instance subscriber generation with an owner-ID list, the
\* owner written in the queue block of instance i is exactly entry i of the
\* list, for every i in 1..N whose entry is there and not empty, and such an
\* instance has its queue block when the entry is no placeholder and the
\* queue name is usable; the single ownerId of the form is the owner for
\* instance i only when the list is absent or its entry i is missing or
\* empty, and it is the owner of every queue block when N = 1; a publisher
\* has no queue block, whatever the list holds.
C18_OwnerOfEachInstance ==
    Returned =>
        /\ Len(Segments(Config)) = N
        /\ \A i \in 1..N :
               /\ (input.applicationType = "subscriber" /\ N > 1 /\ HasEntry(i)) =>
                      /\ QueueOwners(i) \subseteq {Quoted(Get(fetchedOwnerIds)[i])}
                      /\ (QueueNameUsable(i) /\ ~PlaceholderSupplied(i)) =>
                             QueueOwners(i) # {}
               /\ (input.applicationType = "subscriber" /\ N > 1 /\ ~HasEntry(i)) =>
                      /\ QueueOwners(i) \subseteq {FormOwner}
                      /\ (QueueNameUsable(i) /\ Truthy(input.ownerId)) => QueueOwners(i) # {}
               /\ (input.applicationType = "subscriber" /\ N = 1) =>
                      /\ QueueOwners(i) \subseteq {FormOwner}
                      /\ QueueNameUsable(i) => QueueOwners(i) # {}
               /\ input.applicationType = "publisher" => QueueOwners(i) = {}

C18_Witness ==
    /\ Returned
    /\ input.applicationType = "subscriber"
    /\ N = 3
    /\ IsSome(fetchedOwnerIds)
    /\ Len(Get(fetchedOwnerIds)) = 2
    /\ Get(fetchedOwnerIds)[2] = <<>>
    /\ QueueOwners(1) = {Quoted(Str(<<"k", "1">>))}
    /\ QueueOwners(2) = {Quoted(Str(<<"i", "d", "7">>))}
    /\ QueueOwners(3) = {Quoted(Str(<<"i", "d", "7">>))}

(***************************************************************************)
(* Claims about the form.                                                  *)
(***************************************************************************)
\* What the list holds for request j of a batch: the ID the request returned,
\* or the placeholder with the number j of the instance when it failed.
EntryFor(j, outcome) ==
    IF IsSome(outcome) THEN Get(outcome) ELSE ErrorFetchingIdPrefix \o toString10(j)

\* The handler of a batch fetch at one of its awaits: one request is out, the
\* ones before it have settled and have each left their entry in ids.
OneRequestOut(h) ==
    /\ h.issued = Len(h.ids) + 1
    /\ h.issued <= h.numInstancesToFetch
    /\ \A j \in 1..Len(h.ids) :
           \E outcome \in Outcomes(h) : h.ids[j] = EntryFor(j, outcome)

\* C15: a batch owner-ID fetch for N instances issues exactly N identity-
\* provider requests, strictly one after another: while the batch runs exactly
\* one request is out, and request i + 1 is issued in the step in which
\* request i settles, whether it succeeded or failed; when the last request
\* settles N requests have been issued, and the list stored then has exactly
\* N entries, entry i being the ID request i returned or the placeholder
\* ErrorFetchingID_<i> when request i failed.
C15_BatchFetchIsSequential ==
    /\ [](pending # None =>
             \A k \in 1..Len(pending) : pending[k].kind = "batch" => OneRequestOut(pending[k]))
    /\ [][\A k \in 1..Len(pending) : \A outcome \in Outcomes(pending[k]) :
             (pending[k].kind = "batch" /\ Settle(k, outcome)) =>
                 LET h == pending[k]
                     ids == Append(h.ids, EntryFor(Len(h.ids) + 1, outcome))
                 IN  IF Len(ids) < h.numInstancesToFetch
                     THEN /\ Len(pending') = Len(pending)
                          /\ pending'[k].ids = ids
                          /\ pending'[k].issued = h.issued + 1
                          /\ form'.isFetchingOwnerId
                          /\ form'.fetchedOwnerIds = <<>>
                     ELSE /\ h.issued = h.numInstancesToFetch
                          /\ Len(ids) = h.numInstancesToFetch
                          /\ pending' = <<>>
                          /\ form'.fetchedOwnerIds = ids
                          /\ ~form'.isFetchingOwnerId]_vars

C15_Witness ==
    /\ form # None
    /\ form.version = "dummyIds"
    /\ form.values.applicationType = "publisher"
    /\ pending = <<>>
    /\ ~form.isFetchingOwnerId
    /\ form.fetchedOwnerIds =
           <<ErrorFetchingIdPrefix \o Str(<<"1">>), Str(<<"k", "1">>)>>

\* A configuration is displayed.
Displayed == form # None /\ form.generatedTerraform # None

DisplayedConfig == Get(form.generatedTerraform).fullTerraformConfig

\* An error placeholder, as a quoted value of a block.
IsPlaceholderOwner(v) ==
    /\ "quoted" \in DOMAIN v
    /\ \/ v.quoted = ErrorFetchingIdSentinel
       \/ startsWith(v.quoted, ErrorFetchingIdPrefix)

\* No queue of the displayed configuration is owned by an error placeholder.
NoPlaceholderOwner ==
    \A k \in 1..Len(BlocksIn(DisplayedConfig)) :
        BlocksIn(DisplayedConfig)[k].type = QueueType =>
            ~IsPlaceholderOwner(BlocksIn(DisplayedConfig)[k].owner)

\* Exactly N owner IDs are held and none of them is a placeholder.
HoldsAllOwnerIds(f) ==
    /\ Len(f.fetchedOwnerIds) = NumInstances(f.values)
    /\ \A k \in 1..Len(f.fetchedOwnerIds) :
           ~startsWith(f.fetchedOwnerIds[k], ErrorFetchingIdPrefix)

\* C19: after any sequence of form edits, owner-ID fetches (successful or
\* failed) and submits, no configuration is displayed in which the owner of a
\* queue is an error placeholder ("Error fetching ID" or a value starting with
\* "ErrorFetchingID_"); and for a subscriber with N > 1 a submit generates only
\* when exactly N owner IDs are held and none of them is a placeholder, and
\* otherwise leaves the displayed output as it is.
C19_NoPlaceholderOwnerDisplayed ==
    /\ [](Displayed => NoPlaceholderOwner)
    /\ [][(/\ Submit
           /\ form.values.applicationType = "subscriber"
           /\ NumInstances(form.values) > 1) =>
              IF HoldsAllOwnerIds(form) /\ SchemaAccepts(form.values)
              THEN form'.generatedTerraform =
                       Some(generateTerraformConfig(form.values, Some(form.fetchedOwnerIds)))
              ELSE /\ form'.generatedTerraform = form.generatedTerraform
                   /\ form'.ownerIdMappingContent = form.ownerIdMappingContent]_vars

\* An output is displayed: the configuration or the owner-ID mapping.
OutputDisplayed(f) == f.generatedTerraform # None \/ f.ownerIdMappingContent # None

\* What the generator returns for the values and the owner IDs the form holds.
CurrentResult(f) == generateTerraformConfig(f.values, Some(f.fetchedOwnerIds))

\* C20: whenever a generated configuration or an owner-ID mapping is
\* displayed, it is the result of the generator for the current form values
\* and the owner IDs currently held; every step that changes a form value, the
\* topics, the application type, the auto-generate toggle or the held owner
\* IDs, and every start of an owner-ID fetch, leaves no output displayed, so
\* that no step changes a value or the owner IDs under a displayed output.
C20_DisplayedOutputIsCurrent ==
    /\ [](form # None =>
             /\ form.generatedTerraform # None =>
                    form.generatedTerraform = Some(CurrentResult(form))
             /\ form.ownerIdMappingContent # None =>
                    form.ownerIdMappingContent = CurrentResult(form).ownerIdMapping)
    /\ [][(\/ form'.values # form.values
           \/ form'.fetchedOwnerIds # form.fetchedOwnerIds
           \/ form'.autoGenerateOwnerId # form.autoGenerateOwnerId
           \/ Len(pending') > Len(pending)) => ~OutputDisplayed(form')]_vars

(***************************************************************************)
(* The identity-provider service: fetchNewClientId, one step per await.    *)
(* The argument holds what the call meets: the endpoint URL of the         *)
(* environment, whether the request gets through, and the response.  The   *)
(* returned promise is pending at one of the awaits, fulfilled with a      *)
(* value, or rejected with an Error whose message is a sequence of words   *)
(* and, for the one message that has it, the status.                       *)
(***************************************************************************)
JValue(kind, num, str, clientId) ==
    [kind |-> kind, num |-> num, str |-> str, clientId |-> clientId]

JNull == JValue("null", 0, <<>>, None)
JNumber(n) == JValue("number", n, <<>>, None)
JString(s) == JValue("string", 0, s, None)
JArray == JValue("array", 0, <<>>, None)
JObject(clientId) == JValue("object", 0, <<>>, clientId)

\* The JSON documents a response body can hold; an object carries its
\* clientId member when it has one.
JsonValues ==
    {JNull, JNumber(0), JNumber(7), JString(<<>>), JString(Str(<<"k", "1">>)), JArray,
     JObject(None), JObject(Some(JNull)), JObject(Some(JNumber(7))),
     JObject(Some(JString(<<>>))), JObject(Some(JString(Str(<<"k", "1">>))))}

\* A body: one that cannot be read, one that is no JSON, or a JSON document.
ResponseBodies ==
    {[kind |-> "unreadable", data |-> JNull], [kind |-> "text", data |-> JNull]}
        \cup {[kind |-> "json", data |-> d] : d \in JsonValues}

Statuses == {200, 204, 404, 500}

\* response.ok
Ok(status) == status \in 200..299

EndpointUrls == {None, Some(<<>>), Some(Str(<<"u">>))}

\* if (data): null, 0 and "" are falsy.
TruthyJson(data) ==
    /\ data.kind # "null"
    /\ data.kind = "number" => data.num # 0
    /\ data.kind = "string" => data.str # <<>>

\* A clientId member of any type.
AnyClientId(data) == TruthyJson(data) /\ IsSome(data.clientId)

\* data && typeof data.clientId === 'string'
HasClientId(data) ==
    /\ TruthyJson(data)
    /\ IsSome(data.clientId)
    /\ Get(data.clientId).kind = "string"

ErrorMessage(words, status) == [words |-> words, status |-> status]

NotConfigured == ErrorMessage(<<"Keycloak", "endpoint", "not", "configured.">>, None)

FailedToFetchPrefix == <<"Failed", "to", "fetch", "client", "ID">>

FailedToFetch(status) ==
    ErrorMessage(FailedToFetchPrefix \o <<"from", "Keycloak.", "Status:">>, Some(status))

InvalidResponseFormat ==
    ErrorMessage(<<"Invalid", "response", "format", "from", "Keycloak", "endpoint.">>, None)

UnexpectedError ==
    ErrorMessage(<<"An", "unexpected", "error", "occurred", "while", "fetching",
                   "the", "client", "ID.">>, None)

\* What fetch or a body read throws; its message is none of the service's.
RuntimeError == ErrorMessage(<<"TypeError">>, None)

\* The catch clause: what the call throws for an error thrown inside the try.
Caught(error) ==
    IF startsWith(error.words, FailedToFetchPrefix) THEN error ELSE UnexpectedError

PromisePending(at) == [state |-> "pending", at |-> at, value |-> <<>>, reason |-> None]
Fulfilled(value) == [state |-> "fulfilled", at |-> "done", value |-> value, reason |-> None]
RejectedWith(error) ==
    [state |-> "rejected", at |-> "done", value |-> <<>>, reason |-> Some(error)]

ServiceInit ==
    /\ AssemblerOff
    /\ arg \in {[fn |-> "fetchNewClientId", endpointUrl |-> u, reachable |-> r,
                 status |-> st, body |-> b] :
                    u \in EndpointUrls, r \in BOOLEAN, st \in Statuses, b \in ResponseBodies}
    /\ ret = None

\* The call up to its first await.
FetchNewClientId ==
    /\ arg.fn = "fetchNewClientId"
    /\ ret = None
    /\ ret' = IF ~Truthy(arg.endpointUrl)
              THEN Some(RejectedWith(NotConfigured))
              ELSE Some(PromisePending("fetch"))
    /\ UNCHANGED <<arg, assemblerVars>>

\* await fetch(endpointUrl, ...) settles.
ResponseArrives ==
    /\ arg.fn = "fetchNewClientId"
    /\ ret # None
    /\ Get(ret).state = "pending" /\ Get(ret).at = "fetch"
    /\ ret' = IF ~arg.reachable
              THEN Some(RejectedWith(Caught(RuntimeError)))
              ELSE IF ~Ok(arg.status)
                   THEN Some(PromisePending("text"))
                   ELSE Some(PromisePending("json"))
    /\ UNCHANGED <<arg, assemblerVars>>

\* await response.text() settles.
TextArrives ==
    /\ arg.fn = "fetchNewClientId"
    /\ ret # None
    /\ Get(ret).state = "pending" /\ Get(ret).at = "text"
    /\ ret' = IF arg.body.kind = "unreadable"
              THEN Some(RejectedWith(Caught(RuntimeError)))
              ELSE Some(RejectedWith(Caught(FailedToFetch(arg.status))))
    /\ UNCHANGED <<arg, assemblerVars>>

\* await response.json() settles.
JsonArrives ==
    /\ arg.fn = "fetchNewClientId"
    /\ ret # None
    /\ Get(ret).state = "pending" /\ Get(ret).at = "json"
    /\ ret' = IF arg.body.kind # "json"
              THEN Some(RejectedWith(Caught(RuntimeError)))
              ELSE IF HasClientId(arg.body.data)
                   THEN Some(Fulfilled(Get(arg.body.data.clientId).str))
                   ELSE Some(RejectedWith(Caught(InvalidResponseFormat)))
    /\ UNCHANGED <<arg, assemblerVars>>

ServiceNext == FetchNewClientId \/ ResponseArrives \/ TextArrives \/ JsonArrives

ServiceSpec == ServiceInit /\ [][ServiceNext]_vars

(***************************************************************************)
(* Claims about the service.                                               *)
(***************************************************************************)
Settled == arg.fn = "fetchNewClientId" /\ ret # None /\ Get(ret).state # "pending"

\* The one case in which the call may resolve.
GoodResponse ==
    /\ IsSome(arg.endpointUrl) /\ Get(arg.endpointUrl) # <<>>
    /\ arg.reachable
    /\ arg.status \in 200..299
    /\ arg.body.kind = "json"
    /\ arg.body.data.kind = "object"
    /\ IsSome(arg.body.data.clientId)
    /\ Get(arg.body.data.clientId).kind = "string"

\* C16: fetchNewClientId resolves only when the endpoint URL is configured,
\* the response is OK and the JSON body has a string clientId member, and it
\* then resolves with exactly that string; in every other case (URL not
\* configured, network failure, non-OK status, body not JSON, clientId missing
\* or not a string) it rejects with an Error and never resolves with a value
\* of its own.
C16_ResolvesOnlyWithClientId ==
    Settled =>
        /\ Get(ret).state = "fulfilled" <=> GoodResponse
        /\ Get(ret).state = "fulfilled" =>
               /\ Get(ret).value = Get(arg.body.data.clientId).str
               /\ Get(ret).reason = None
        /\ Get(ret).state # "fulfilled" =>
               /\ Get(ret).state = "rejected"
               /\ IsSome(Get(ret).reason)
               /\ Get(ret).value = <<>>

C16_Witness ==
    /\ Settled
    /\ Get(ret).state = "fulfilled"
    /\ Get(ret).value = Str(<<"k", "1">>)
    /\ arg.status = 204

\* The message C22 gives each failure cause; a body that cannot be read or
\* is no JSON counts among the failures that are none of the three named.
MessageOfCause ==
    IF ~Truthy(arg.endpointUrl) THEN NotConfigured
    ELSE IF ~arg.reachable \/ arg.body.kind = "unreadable" THEN UnexpectedError
    ELSE IF ~Ok(arg.status) THEN FailedToFetch(arg.status)
    ELSE IF arg.body.kind = "json" THEN InvalidResponseFormat
    ELSE UnexpectedError

\* C22: each failure cause of fetchNewClientId reaches the caller with its own
\* message: "Keycloak endpoint not configured." when the URL is unset,
\* "Failed to fetch client ID from Keycloak. Status: <status>" for a non-OK
\* response, "Invalid response format from Keycloak endpoint." when the body
\* has no string clientId, and "An unexpected error occurred while fetching
\* the client ID." only for the failures that are none of these.
C22_OwnMessagePerCause ==
    (Settled /\ Get(ret).state = "rejected") =>
        Get(ret).reason = Some(MessageOfCause)

(***************************************************************************)
(* Claims about the fetches of the form.                                   *)
(***************************************************************************)
\* The flag of the handler h.
FlagOf(f, h) == IF IsDummy(h) THEN f.isFetchingDummyId ELSE f.isFetchingOwnerId

\* The handler k runs to its end in this step.
Finishes(k) ==
    /\ k \in 1..Len(pending)
    /\ \E outcome \in Outcomes(pending[k]) :
           /\ Settle(k, outcome)
           /\ Len(pending') < Len(pending)

StillWanted(f) == f.values.applicationType = "subscriber" /\ f.autoGenerateOwnerId

\* C23: in the auto-generate form, the result of an owner-ID fetch (the
\* fetched ID or the sentinel "Error fetching ID") is written to the ownerId
\* field only if, when the fetch settles, the application type is still
\* subscriber and auto-generation is still on: a fetch that settles when this
\* is no longer so leaves ownerId as it is, be it an owner ID the user typed
\* after switching auto-generation off or the empty owner ID of a publisher.
C23_LateFetchLeavesOwnerId ==
    [][\A k \in 1..Len(pending) : \A outcome \in Outcomes(pending[k]) :
           (/\ form.version = "autoGenerate"
            /\ ~StillWanted(form)
            /\ Settle(k, outcome)) => form'.values.ownerId = form.values.ownerId]_vars

\* An owner-ID fetch of the auto-generate form is in flight.
FetchInFlight == form # None /\ form.version = "autoGenerate" /\ pending # <<>>

\* C24: in the auto-generate form, isFetchingOwnerId is true, and so the
\* Generate button is disabled, whenever at least one owner-ID fetch is in
\* flight, also when a change of the application type or of the toggle has
\* started a second fetch before the first has settled; so no submit runs
\* while a fetch that will still change ownerId is pending.
C24_FetchingWhileInFlight ==
    /\ [](FetchInFlight => form.isFetchingOwnerId /\ ~SubmitEnabled(form))
    /\ [][(form.version = "autoGenerate" /\ Submit) => pending = <<>>]_vars

\* The document holds, for each of n instances, one queue block and one
\* queue-subscription block per topic.
QueuePerInstance(doc, n, k) ==
    /\ Len(Segments(doc)) = n
    /\ \A i \in 1..Len(Segments(doc)) :
           /\ Len(OfType(BlocksIn(Segments(doc)[i]), QueueType)) = 1
           /\ Len(OfType(BlocksIn(Segments(doc)[i]), SubscriptionType)) = k

\* C25: every subscriber submission that passes the schema and the guards of
\* onSubmit produces, for each of its N instances, one queue block and one
\* queue-subscription block per topic: no subscriber configuration is
\* generated with the queue left out.
C25_SubscriberAlwaysHasQueue ==
    [][(/\ Submit
        /\ form.values.applicationType = "subscriber"
        /\ SchemaAccepts(form.values)
        /\ OnSubmitGenerates(form)) =>
           /\ form'.generatedTerraform # None
           /\ QueuePerInstance(Get(form'.generatedTerraform).fullTerraformConfig,
                               NumInstances(form.values), Len(form.values.topics))]_vars

(***************************************************************************)
(* The two generators called on the same single-instance input: the        *)
(* current one without an owner-ID list, and the earlier one.              *)
(***************************************************************************)
SingleOwnerIds == FormOwnerIds \cup {Some(ErrorFetchingIdPrefix \o Str(<<"1">>))}

SingleInstanceInputs ==
    {in \in {[applicationType |-> t,
              authProfileName |-> AuthName,
              aclProfileName |-> MyAcl,
              queueName |-> q,
              ownerId |-> o,
              topics |-> ts,
              numberOfInstances |-> n] :
                 t \in {"publisher", "subscriber"},
                 q \in QueueNames,
                 o \in SingleOwnerIds,
                 ts \in SeqsUpTo(GeneratorTopics, MaxTopics),
                 n \in {None, Some(1)}} : SchemaAccepts(in)}

BothInit ==
    /\ AssemblerOff
    /\ arg \in {[fn |-> "generateTerraformConfig", input |-> in] : in \in SingleInstanceInputs}
    /\ ret = [current |-> None, earlier |-> None]

CallCurrent ==
    /\ arg.fn = "generateTerraformConfig"
    /\ ret.current = None
    /\ ret' = [ret EXCEPT !.current = Some(generateTerraformConfig(arg.input, None))]
    /\ UNCHANGED <<arg, assemblerVars>>

CallEarlier ==
    /\ arg.fn = "generateTerraformConfig"
    /\ ret.earlier = None
    /\ ret' = [ret EXCEPT !.earlier = Some(generateTerraformConfigV1(arg.input))]
    /\ UNCHANGED <<arg, assemblerVars>>

BothNext == CallCurrent \/ CallEarlier

BothSpec == BothInit /\ [][BothNext]_vars

(***************************************************************************)
(* Claims about the two generators.                                        *)
(***************************************************************************)
BothReturned ==
    /\ arg.fn = "generateTerraformConfig"
    /\ ret.current # None
    /\ ret.earlier # None

SameDocument ==
    Get(ret.current).fullTerraformConfig = Get(ret.earlier).fullTerraformConfig

\* The owner ID of the input is an error placeholder of a batch fetch.
PlaceholderOwnerId ==
    /\ Truthy(arg.input.ownerId)
    /\ startsWith(Get(arg.input.ownerId), ErrorFetchingIdPrefix)

\* C26 as stated: for every input with the instance count absent or 1 and no
\* owner-ID list, the multi-instance generator returns the fullTerraformConfig
\* the earlier single-instance generator returns for the same input: the same
\* blocks in the same order with the same separators, no suffix and no
\* instance marker.
C26_SameAsSingleInstanceGenerator ==
    BothReturned => SameDocument

\* C26, amended: the two documents are the same for every such input whose
\* owner ID does not start with "ErrorFetchingID_", and for every publisher;
\* for a subscriber whose owner ID starts with it the multi-instance generator
\* leaves out the queue block and the queue-subscription blocks that the
\* earlier generator emits, and the other blocks are the same.
C26_SameUnlessPlaceholderOwner ==
    BothReturned =>
        LET current == Get(ret.current).fullTerraformConfig
            earlier == Get(ret.earlier).fullTerraformConfig
            kept(doc) == SelectSeq(doc, LAMBDA piece :
                             ~(IsBlock(piece) /\ piece.type \in {QueueType, SubscriptionType}))
        IN  /\ ~(arg.input.applicationType = "subscriber" /\ PlaceholderOwnerId) =>
                   current = earlier
            /\ \A k \in 1..Len(current) : current[k] # InstanceMarker
            /\ (arg.input.applicationType = "subscriber" /\ PlaceholderOwnerId) =>
                   /\ OfType(BlocksIn(current), QueueType) = <<>>
                   /\ OfType(BlocksIn(current), SubscriptionType) = <<>>
                   /\ BlocksIn(kept(earlier)) = BlocksIn(current)

C26_Witness ==
    /\ BothReturned
    /\ arg.input.applicationType = "subscriber"
    /\ arg.input.numberOfInstances = None
    /\ Len(arg.input.topics) = 2
    /\ SameDocument
    /\ Len(OfType(BlocksIn(Get(ret.current).fullTerraformConfig), QueueType)) = 1
    /\ Len(OfType(BlocksIn(Get(ret.current).fullTerraformConfig), SubscriptionType)) = 2

====
